---- MODULE Spec2Model ----
(***************************************************************************)
(* Session multiplexer of the planner MCP server (index.ts): the session   *)
(* registry, the three /mcp route handlers, the transport close callback   *)
(* and the shutdown loop.  Every `await` of a handler is a step boundary:  *)
(* an action is the code that runs between two suspension points.          *)
(***************************************************************************)
EXTENDS Naturals, Integers, Sequences, FiniteSets, TLC

(* ------------------------------ bounds --------------------------------- *)
\* number of HTTP requests on /mcp that arrive in one behaviour
MaxReq == 2
\* number of session ids randomUUID() can hand out in one behaviour
MaxTokens == 2
\* number of shutdown() calls (SIGINT, SIGTERM deliveries) in one behaviour
MaxShutdowns == 1

(* --------------------------- strings as data --------------------------- *)
\* A header value is a sequence of characters, so that exact, prefix and
\* case-insensitive comparison are different operators.
Letters == <<"a", "b", "c", "d", "e", "f">>
Tok(i) == <<Letters[i], <<"1", "2", "3", "4", "5", "6">>[i]>>
\* the values randomUUID() can return
TokenPool == {Tok(i) : i \in 1..MaxTokens}
\* `undefined` and '' : both falsy in `sessionId && ...`, `!sessionId`, `if (id)`
NoSessionId == << >>
Truthy(s) == s # NoSessionId
LowerChar(c) == IF c = "A" THEN "a" ELSE IF c = "B" THEN "b" ELSE c
ToLower(s) == [i \in 1..Len(s) |-> LowerChar(s[i])]
\* mcp-session-id values a client can send: nothing, a pool value, the first
\* pool value in upper case (never issued) and a proper prefix of it
HeaderVals == {NoSessionId} \cup TokenPool \cup {<<"A", "1">>, <<"a">>}

Req == 1..MaxReq
\* req.body of a POST: an initialize request or any other message
Bodies == {"init", "other"}
\* the shutdown() calls, in the order in which the signals are delivered
Calls == 1..MaxShutdowns

VARIABLES
    started,    \* httpServer has been assigned by startupChecks().then
    listening,  \* the HTTP listener accepts requests
    exited,     \* process.exit has run
    req,        \* per request in flight: method, mcp-session-id header, body, position
    arrived,    \* the request a route handler received in the last step (NoArrival when none did)
    resp,       \* the response the last step completed (NoResp when it completed none)
    eng,        \* per request: the McpServer/transport pair that request created
    sessions,   \* the registry: session id -> [server, transport, stamp]
    nSet,       \* number of sessions.set calls (handshakes that assigned an id)
    nEvict,     \* number of sessions.delete calls that removed an entry
    issued,     \* ids returned by sessionIdGenerator so far
    evicted,    \* ids that have been removed from the registry
    closedIds,  \* ids a close has run for: onclose, line 115 of DELETE, line 176 of shutdown
    sd,         \* per shutdown() call: its position
    dbClosed,   \* number of db.close() calls
    auth,       \* validateMcpKey applied to one request: its two headers and the outcome
    val,        \* validateBodyData applied to one body_data: kind, payload and outcome
    activities, \* the rows of the activities table, in the order of their insertion
    lastOp      \* the catalog operation of the last step: its arguments and what it returned

\* the state of the activities catalog
catalog == <<activities, lastOp>>

\* the state of the components other than the session multiplexer
others == <<auth, val, catalog>>

\* the state of the session multiplexer and of the process
multiplexer == <<started, listening, exited, req, arrived, resp, eng, sessions, nSet, nEvict, issued, evicted, closedIds, sd, dbClosed>>

vars == <<multiplexer, others>>

\* a request slot: no request yet, and a request whose response is complete
\* hdr is the mcp-session-id the request was routed by; stale tells whether it
\* carried an mcp-session-id that did not resolve: "no", or an id that was
\* "closed" (evicted) before, or one that was "never" in the registry
NoReq == [method |-> "none", hdr |-> NoSessionId, stale |-> "no", body |-> "none", pc |-> "idle",
          res |-> "pending", target |-> 0]
DoneReq == [NoReq EXCEPT !.pc = "done"]
NoResp == [method |-> "none", hdr |-> NoSessionId, stale |-> "no", res |-> "pending", tok |-> NoSessionId]
NoArrival == [method |-> "none", hdr |-> NoSessionId]
\* closes counts the runs of the pair's close (transport.close, server.close)
NoEng == [created |-> FALSE, connected |-> FALSE, sessionId |-> NoSessionId, closes |-> 0]
NoSd == [pc |-> "idle", last |-> 0, cur |-> NoSessionId]

\* the routes without their catch blocks: an exception of the handler
\* writes no response
StatusOfUncaught(res) ==
    CASE res = "ok" -> 200
      [] res = "SessionNotFound" -> 400
      [] res = "TransportRejected" -> 400
      [] res = "Unauthorized" -> 401
      [] res = "Forbidden" -> 403
      [] OTHER -> 0

\* HTTP status of a response: res.status(400) in lines 91 and 109, res.status(500)
\* in the catch blocks, otherwise the status the transport wrote
StatusOf(res) ==
    CASE res = "ok" -> 200
      [] res = "SessionNotFound" -> 400
      [] res = "TransportRejected" -> 400
      [] res = "InternalError" -> 500
      [] res = "Unauthorized" -> 401
      [] res = "Forbidden" -> 403
      [] OTHER -> 0

(* ------------------------------ registry -------------------------------- *)
\* Map.prototype.set and delete on `sessions`
\* a set that stores under the first character of the key
MapSetTruncatingKey(m, k, v) ==
    [x \in DOMAIN m \cup {SubSeq(k, 1, 1)} |-> IF x = SubSeq(k, 1, 1) THEN v ELSE m[x]]
MapSet(m, k, v) == [x \in DOMAIN m \cup {k} |-> IF x = k THEN v ELSE m[x]]
\* a delete that, for a key that is gone, removes some entry that is left
MapDeleteFirst(m, k) ==
    IF k \in DOMAIN m \/ DOMAIN m = {} THEN [x \in DOMAIN m \ {k} |-> m[x]]
    ELSE LET v == CHOOSE x \in DOMAIN m : TRUE IN [x \in DOMAIN m \ {v} |-> m[x]]
MapDelete(m, k) == [x \in DOMAIN m \ {k} |-> m[x]]

\* a lookup that compares the ids without regard to case
ResolveIgnoringCase(m, sessionId) ==
    IF Truthy(sessionId) /\ \E k \in DOMAIN m : ToLower(k) = ToLower(sessionId)
    THEN CHOOSE k \in DOMAIN m : ToLower(k) = ToLower(sessionId)
    ELSE NoSessionId

\* `sessionId && sessions.has(sessionId)` followed by sessions.get(sessionId):
\* the key the request resolves to, NoSessionId when it resolves to none
Resolve(m, sessionId) ==
    IF Truthy(sessionId) /\ sessionId \in DOMAIN m THEN sessionId ELSE NoSessionId

\* a generator that can return an id again
SessionIdGeneratorRepeating(used) == TokenPool

\* sessionIdGenerator: () => randomUUID() -- an id that was never returned
\* before; the pool lists the ids in the order in which they are drawn
SessionIdGenerator(used) == {t \in TokenPool : t = Tok(Cardinality(used) + 1)}

(* ----------------- body_data validation (mcp/server.ts) ----------------- *)
\* the three activity kinds of the tool's z.enum, and a kind outside it
Kinds == {"multiple-choice-question", "short-text-question", "text"}
\* .min(2) and .max(4) of options, .max(500) of an option text
OptionsMin == 2
OptionsMax == 4
OptionTextMax == 500

\* JSON values as the schemas see them: t is the JavaScript type, v the
\* characters of a string or the elements of an array
Undef == [t |-> "undefined", v |-> << >>]
Null == [t |-> "null", v |-> << >>]
Num == [t |-> "number", v |-> << >>]
Str(s) == [t |-> "string", v |-> s]
Arr(xs) == [t |-> "array", v |-> xs]
Obj(members) == [t |-> "object", v |-> <<members>>]
\* a number and a boolean hold their value as a sequence of one element, so
\* that the v of any two values can be compared
Number(n) == [t |-> "number", v |-> <<n>>]
Bool(b) == [t |-> "boolean", v |-> <<b>>]
\* a text of n characters
Text(n) == [i \in 1..n |-> "x"]

\* a body_data object, read by key: a key the object lacks reads as Undef
NoBody == [question |-> Undef, imageFile |-> Undef, imageUrl |-> Undef, imageAlt |-> Undef,
           options |-> Undef, correctOptionId |-> Undef, modelAnswer |-> Undef, text |-> Undef,
           extra |-> Undef]

\* the outcome of a schema on a value: zod's parse status with the issues
\* raised so far, each with the path of the value and the message
Valid == [status |-> "valid", issues |-> << >>]
Dirty(path, message) == [status |-> "dirty", issues |-> <<[path |-> path, message |-> message]>>]
Aborted(path, message) == [status |-> "aborted", issues |-> <<[path |-> path, message |-> message]>>]
\* the message zod gives a value of the wrong type
InvalidType(v) == IF v.t = "undefined" THEN "Required" ELSE "Invalid type"

\* ParseStatus merge: the issues of all parts in order; aborted if a part
\* aborted, else dirty if a part is dirty
RECURSIVE Concat(_)
Concat(rs) == IF rs = << >> THEN << >> ELSE Head(rs).issues \o Concat(Tail(rs))
Merge(rs) ==
    [status |-> IF \E i \in 1..Len(rs) : rs[i].status = "aborted" THEN "aborted"
                ELSE IF \E i \in 1..Len(rs) : rs[i].status = "dirty" THEN "dirty"
                ELSE "valid",
     issues |-> Concat(rs)]

\* z.string()
ZString(v, path) == IF v.t = "string" THEN Valid ELSE Aborted(path, InvalidType(v))
\* a string check without the min(1)
ZStringNoMin(v, path, message) == ZString(v, path)
\* z.string().min(1, message)
ZStringMin1(v, path, message) ==
    IF v.t # "string" THEN Aborted(path, InvalidType(v))
    ELSE IF Len(v.v) < 1 THEN Dirty(path, message)
    ELSE Valid
\* z.string().max(max, message)
ZStringMax(v, max, path, message) ==
    IF v.t # "string" THEN Aborted(path, InvalidType(v))
    ELSE IF Len(v.v) > max THEN Dirty(path, message)
    ELSE Valid
\* schema.nullable().optional(): undefined and null pass, any other value
\* gets the outcome `inner` of the schema
NullableOptional(v, inner) == IF v.t \in {"undefined", "null"} THEN Valid ELSE inner

\* an option schema whose id is z.string().trim().min(1): blanks do not
\* count (the ids here hold no blank between other characters)
McqOptionSchemaTrimmingId(o, i) ==
    Merge(<< ZStringMin1(IF o.id.t = "string" THEN Str(SelectSeq(o.id.v, LAMBDA c : c # " ")) ELSE o.id,
                         <<"options", i, "id">>, "Option id is required"),
             ZStringMax(o.text, OptionTextMax, <<"options", i, "text">>,
                        "Option text must be 500 characters or fewer"),
             NullableOptional(o.imageUrl, ZString(o.imageUrl, <<"options", i, "imageUrl">>)) >>)

\* McqOptionSchema (lines 9-13) on the i-th element of options
McqOptionSchema(o, i) ==
    Merge(<< ZStringMin1(o.id, <<"options", i, "id">>, "Option id is required"),
             ZStringMax(o.text, OptionTextMax, <<"options", i, "text">>,
                        "Option text must be 500 characters or fewer"),
             NullableOptional(o.imageUrl, ZString(o.imageUrl, <<"options", i, "imageUrl">>)) >>)

\* z.array(McqOptionSchema).min(2, ...).max(4, ...) (lines 20-23): the length
\* checks raise their issue first, then every element is parsed
McqOptionsSchema(v) ==
    IF v.t # "array" THEN Aborted(<<"options">>, InvalidType(v))
    ELSE Merge(<< IF Len(v.v) < OptionsMin THEN Dirty(<<"options">>, "At least 2 options are required")
                  ELSE Valid,
                  IF Len(v.v) > OptionsMax THEN Dirty(<<"options">>, "At most 4 options are allowed")
                  ELSE Valid >>
               \o [i \in 1..Len(v.v) |-> McqOptionSchema(v.v[i], i)])

\* the z.object of McqBodySchema (lines 15-24), its keys in order
McqObjectSchema(data) ==
    Merge(<< ZStringMin1(data.question, <<"question">>, "question is required"),
             NullableOptional(data.imageFile, ZStringMin1(data.imageFile, <<"imageFile">>, "Too small")),
             NullableOptional(data.imageUrl, ZString(data.imageUrl, <<"imageUrl">>)),
             NullableOptional(data.imageAlt, ZString(data.imageAlt, <<"imageAlt">>)),
             McqOptionsSchema(data.options),
             ZStringMin1(data.correctOptionId, <<"correctOptionId">>, "correctOptionId is required") >>)

\* a refinement that compares the ids without regard to case
CorrectOptionIdMatchesIgnoringCase(data) ==
    \E i \in 1..Len(data.options.v) :
        ToLower(data.options.v[i].id.v) = ToLower(data.correctOptionId.v)

\* line 26: data.options.some((o) => o.id === data.correctOptionId)
CorrectOptionIdMatches(data) ==
    \E i \in 1..Len(data.options.v) : data.options.v[i].id = data.correctOptionId

\* McqBodySchema (lines 15-28): .refine runs its check only on an object
\* whose parse did not abort, that is when every key has a value of its type
McqBodySchema(data) ==
    LET inner == McqObjectSchema(data) IN
    IF inner.status = "aborted" THEN inner
    ELSE IF CorrectOptionIdMatches(data) THEN inner
    ELSE Merge(<< inner, Dirty(<< >>, "correctOptionId must match the id of one of the provided options") >>)

\* ShortTextBodySchema (lines 30-33); .passthrough() keeps the other keys
\* a short-text schema that forgets the modelAnswer
ShortTextBodySchemaQuestionOnly(data) ==
    ZStringMin1(data.question, <<"question">>, "question is required")
ShortTextBodySchema(data) ==
    Merge(<< ZStringMin1(data.question, <<"question">>, "question is required"),
             ZStringMin1(data.modelAnswer, <<"modelAnswer">>, "modelAnswer is required") >>)

\* TextBodySchema (lines 35-37)
\* a text schema without the min(1)
TextBodySchemaAnyString(data) == ZString(data.text, <<"text">>)
TextBodySchema(data) == ZStringMin1(data.text, <<"text">>, "text is required")

\* result.error.issues.map((i) => i.message), which join('; ') puts in a line

\* validateBodyData (lines 39-63): error is the prefix naming the kind and
\* the messages of all issues; a kind that is none of the three passes
Accepted == [success |-> TRUE, error |-> << >>, issues |-> << >>]
RejectedBody(type, parsed) ==
    [success |-> FALSE, error |-> <<"Invalid body_data for", type>> \o [i \in 1..Len(parsed.issues) |-> parsed.issues[i].message],
     issues |-> parsed.issues]
ValidateBodyData(type, bodyData) ==
    LET parsed == CASE type = "multiple-choice-question" -> McqBodySchema(bodyData)
                    [] type = "short-text-question" -> ShortTextBodySchema(bodyData)
                    [] type = "text" -> TextBodySchema(bodyData)
                    [] OTHER -> Valid
    IN IF parsed.issues = << >> THEN Accepted ELSE RejectedBody(type, parsed)

\* ----- the payloads validateBodyData is applied to -----
\* the longest options list that is tried
MaxOptions == 5
\* question, modelAnswer and text values: absent, of another type, empty, non-empty
FieldVals == {Undef, Num, Str(<< >>), Str(<<" ">>), Str(<<"q">>)}
\* the i-th option of a list: id the i-th letter, a short text, no image
Option(i) == [id |-> Str(<<Letters[i]>>), text |-> Str(Text(1)), imageUrl |-> Undef]
\* options lists of n elements: as they come; with a first text of 501 and a
\* last text of 500 characters; with an empty, a missing and a blank first
\* id; with an image that is null and one that is no string
Shaped(o, i, n, shape) ==
    CASE shape = "long" /\ i = 1 -> [o EXCEPT !.text = Str(Text(OptionTextMax + 1))]
      [] shape = "limit" /\ i = n -> [o EXCEPT !.text = Str(Text(OptionTextMax))]
      [] shape = "emptyId" /\ i = 1 -> [o EXCEPT !.id = Str(<< >>)]
      [] shape = "noId" /\ i = 1 -> [o EXCEPT !.id = Undef]
      [] shape = "blankId" /\ i = 1 -> [o EXCEPT !.id = Str(<<" ">>)]
      [] shape = "nullImage" /\ i = 1 -> [o EXCEPT !.imageUrl = Null]
      [] shape = "badImage" /\ i = 1 -> [o EXCEPT !.imageUrl = Num]
      [] OTHER -> o
OptionsVals ==
    {Undef} \cup {Arr([i \in 1..n |-> Shaped(Option(i), i, n, shape)]) : n \in 0..MaxOptions,
              shape \in {"plain", "long", "limit", "emptyId", "noId", "blankId", "nullImage", "badImage"}}
\* correctOptionId values: absent, empty, a blank, the first, second, fourth and fifth
\* letter, the first letter in upper case, and an id no option has
CorrectOptionIdVals ==
    {Undef, Str(<< >>), Str(<<" ">>), Str(<<"a">>), Str(<<"b">>), Str(<<"d">>), Str(<<"e">>), Str(<<"A">>),
     Str(<<"z", "z">>)}
\* the optional image keys: absent, null, present, an empty imageFile, a wrong type
ImageVals ==
    { [imageFile |-> Undef, imageUrl |-> Undef, imageAlt |-> Undef],
      [imageFile |-> Null, imageUrl |-> Null, imageAlt |-> Null],
      [imageFile |-> Str(<<"f">>), imageUrl |-> Str(<<"u">>), imageAlt |-> Str(<< >>)],
      [imageFile |-> Str(<< >>), imageUrl |-> Undef, imageAlt |-> Undef],
      [imageFile |-> Undef, imageUrl |-> Undef, imageAlt |-> Num] }
McqBodies ==
    { [NoBody EXCEPT !.question = q, !.imageFile = im.imageFile, !.imageUrl = im.imageUrl,
                     !.imageAlt = im.imageAlt, !.options = o, !.correctOptionId = c] :
        q \in {Undef, Str(<< >>), Str(<<" ">>), Str(<<"q">>)}, im \in ImageVals, o \in OptionsVals,
        c \in CorrectOptionIdVals }
ShortTextBodies ==
    { [NoBody EXCEPT !.question = q, !.modelAnswer = m, !.extra = x] :
        q \in FieldVals, m \in FieldVals, x \in {Undef, Num} }
TextBodies == { [NoBody EXCEPT !.text = t] : t \in FieldVals }
\* every kind is applied to its own payloads and to those of the text kind
ValInputs ==
    ({"multiple-choice-question"} \X McqBodies)
    \cup ({"short-text-question"} \X ShortTextBodies)
    \cup ((Kinds \cup {"essay"}) \X TextBodies)

\* validateBodyData has not been applied
NoVal == [type |-> "none", bodyData |-> NoBody, pc |-> "idle", result |-> Accepted]

(* --------------- the activities catalog (db queries, tools) ------------- *)
\* the number of rows the activities table can hold in one behaviour
MaxRows == 1

Lessons == {"L1", "L2"}
\* body_data values of the catalog operations: a multiple-choice payload with
\* a key the schema does not know, the same with a correctOptionId no option
\* has, a text payload, an empty text
McqBody ==
    [NoBody EXCEPT !.question = Str(<<"q">>), !.options = Arr(<<Option(1), Option(2)>>),
                   !.correctOptionId = Str(<<"b">>), !.extra = Num]
McqBodyBad == [McqBody EXCEPT !.correctOptionId = Str(<<"z", "z">>)]
TextBody == [NoBody EXCEPT !.text = Str(<<"t">>)]
TextBodyEmpty == [NoBody EXCEPT !.text = Str(<< >>)]
\* a short-text payload with a key the schema does not name, and the same
\* with a question that is empty or a modelAnswer that is missing
ShortTextBody == [NoBody EXCEPT !.question = Str(<<"q">>), !.modelAnswer = Str(<<"m">>), !.extra = Num]
\* kind and body_data of an activity the create_activity tool can be given
TypedBodies ==
    { <<"multiple-choice-question", McqBody>>, <<"multiple-choice-question", McqBodyBad>>,
      <<"text", TextBody>>, <<"text", TextBodyEmpty>> }
\* CreateActivityInput (types/index.ts lines 47-55): order_by and notes left
\* out (undefined), is_summative left out or true; every payload under L1,
\* the multiple-choice one also with is_summative false and under L2
PlainInputs ==
    { [lesson_id |-> "L1", title |-> "t", type |-> tb[1], body_data |-> tb[2], order_by |-> Undef,
       is_summative |-> f, notes |-> Undef] :
        tb \in TypedBodies, f \in {Undef, Bool(TRUE)} }
    \cup { [lesson_id |-> "L1", title |-> "t", type |-> "multiple-choice-question",
            body_data |-> McqBody, order_by |-> Undef, is_summative |-> Bool(FALSE), notes |-> Undef] }
    \cup { [lesson_id |-> "L2", title |-> "t", type |-> "multiple-choice-question",
            body_data |-> McqBody, order_by |-> Undef, is_summative |-> Undef, notes |-> Undef] }
\* short-text payloads, and a kind that is none of the three with a payload
\* no schema accepts
OtherTypedBodies ==
    ({"short-text-question"} \X
        { [ShortTextBody EXCEPT !.question = q, !.modelAnswer = m] :
            q \in {Str(<< >>), Str(<<"q">>)}, m \in {Undef, Str(<<"m">>)} })
    \cup {<<"essay", McqBodyBad>>}
OtherInputs ==
    { [lesson_id |-> "L1", title |-> "t", type |-> tb[1], body_data |-> tb[2], order_by |-> Undef,
       is_summative |-> Undef, notes |-> Undef] : tb \in OtherTypedBodies }
\* the arguments create_activity is called with: these, and a multiple-choice
\* activity with order_by 0 and notes ''
CreateActivityInputs ==
    PlainInputs \cup OtherInputs \cup
    { [i EXCEPT !.order_by = Number(0), !.notes = Str(<< >>)] :
        i \in {p \in PlainInputs : p.lesson_id = "L1" /\ p.body_data = McqBody /\ p.is_summative = Undef} }

\* JSON.stringify(body_data): the members of the object, a member whose
\* value is undefined left out
BodyKeys == {"question", "imageFile", "imageUrl", "imageAlt", "options", "correctOptionId",
             "modelAnswer", "text", "extra"}
\* a serialisation that keeps only the keys the schemas name
JsonStringifyKnownKeys(bodyData) ==
    {<<k, bodyData[k]>> : k \in {x \in BodyKeys \ {"extra"} : bodyData[x] # Undef}}
JsonStringify(bodyData) == {<<k, bodyData[k]>> : k \in {x \in BodyKeys : bodyData[x] # Undef}}
\* the object a JSONB column gives back for the members it stored
JsonParse(members) ==
    [k \in BodyKeys |-> IF \E m \in members : m[1] = k
                        THEN (CHOOSE m \in members : m[1] = k)[2] ELSE Undef]
\* the falsy values of JavaScript, and x || fallback
Falsy(x) ==
    \/ x.t \in {"undefined", "null"}
    \/ x.t = "number" /\ x.v = <<0>>
    \/ x.t = "string" /\ x.v = << >>
    \/ x.t = "boolean" /\ x.v = <<FALSE>>
Or(x, fallback) == IF Falsy(x) THEN fallback ELSE x

\* DbActivity (types/index.ts lines 19-29)
NoRow == [activity_id |-> 0, lesson_id |-> "none", title |-> "none", type |-> "none",
          body_data |-> NoBody, order_by |-> Null, active |-> FALSE, is_summative |-> Bool(FALSE),
          notes |-> Null]
\* the messages a failed query can throw
DbErrors == {"connection terminated"}

\* a tool result: content[0].text, which is a line of messages or the JSON
\* text of a row or of a list of rows, and isError
NoResult ==
    [isError |-> FALSE, text |-> << >>, row |-> NoRow, rows |-> << >>, bool |-> FALSE, thrown |-> FALSE]
\* a query of the gateway did not return: it threw an Error with this message
Thrown(message) == [NoResult EXCEPT !.thrown = TRUE, !.text = <<message>>]
\* an error result that says the same whatever went wrong
ErrorResultGeneric(text) == [NoResult EXCEPT !.isError = TRUE, !.text = <<"Invalid body_data">>]
ErrorResult(text) == [NoResult EXCEPT !.isError = TRUE, !.text = text]
\* Partial<CreateActivityInput> with no member (update, line 205)
NoUpdates == [title |-> Undef, type |-> Undef, body_data |-> Undef, order_by |-> Undef,
              is_summative |-> Undef, notes |-> Undef]
\* no catalog operation has run
NoLast == [op |-> "none", lesson_id |-> "none", type |-> "none", body_data |-> NoBody,
           is_summative |-> Undef, order_by |-> Undef, notes |-> Undef, id |-> 0,
           updates |-> NoUpdates, title |-> Undef, unit_id |-> Undef, result |-> NoResult]

CatalogInit ==
    /\ activities = << >>
    /\ lastOp = NoLast

\* the row an INSERT ... RETURNING * gives (create lines 164-176, bulkCreate
\* lines 185-197): body_data goes through JSON.stringify into the JSONB
\* column, order_by, is_summative and notes through ||, active is true
InsertedRow(rows, lessonId, input) ==
    [activity_id |-> Len(rows) + 1, lesson_id |-> lessonId, title |-> input.title,
     type |-> input.type, body_data |-> JsonParse(JsonStringify(input.body_data)),
     order_by |-> Or(input.order_by, Null), active |-> TRUE,
     is_summative |-> Or(input.is_summative, Bool(FALSE)), notes |-> Or(input.notes, Null)]
\* what a query does: it runs, or it throws one of the messages
Outcomes == {"ok"} \cup DbErrors
\* the text of the rejection of a summative text activity (server.ts line 143)
NonScorable == <<"text activities are non-scorable and cannot be summative">>

\* SELECT ... WHERE lesson_id = $1 AND COALESCE(active, true) = true
\* ORDER BY order_by, activity_id (getAll lines 147-153); NULL sorts last
OrderedBefore(a, b) ==
    IF a.order_by.t = "number" /\ b.order_by.t = "number" /\ a.order_by.v # b.order_by.v
    THEN a.order_by.v[1] < b.order_by.v[1]
    ELSE IF a.order_by.t # b.order_by.t THEN a.order_by.t = "number"
    ELSE a.activity_id < b.activity_id
GetAll(rows, lessonId) ==
    SortSeq(SelectSeq(rows, LAMBDA a : a.lesson_id = lessonId /\ a.active), OrderedBefore)

\* SELECT * FROM activities WHERE activity_id = $1, then rows[0] || null
\* (getById lines 155-161); NoRow stands for null
GetById(rows, activityId) ==
    LET hits == SelectSeq(rows, LAMBDA a : a.activity_id = activityId)
    IN IF hits = << >> THEN NoRow ELSE hits[1]

\* create_activity (server.ts lines 138-174), the whole handler: the
\* summative text check, validateBodyData, then activityQueries.create,
\* which inserts or throws
\* validateBodyData(args.type, args.body_data) (line 149), computed once for
\* each kind and body_data the tool is given
Validation == [tb \in TypedBodies \cup OtherTypedBodies |-> ValidateBodyData(tb[1], tb[2])]
\* the handler with the two checks in the other order
CreateActivityResultValidatingFirst(rows, args, outcome) ==
    LET validation == ValidateBodyData(args.type, args.body_data)
    IN IF ~validation.success THEN ErrorResult(validation.error)
       ELSE IF args.type = "text" /\ ~Falsy(args.is_summative) THEN ErrorResult(NonScorable)
       ELSE IF outcome # "ok" THEN ErrorResult(<<"Error creating activity: ", outcome>>)
       ELSE [NoResult EXCEPT !.row = InsertedRow(rows, args.lesson_id, args)]
CreateActivityResult(rows, args, outcome) ==
    LET validation == Validation[<<args.type, args.body_data>>]
    IN IF args.type = "text" /\ ~Falsy(args.is_summative) THEN ErrorResult(NonScorable)
       ELSE IF ~validation.success THEN ErrorResult(validation.error)
       ELSE IF outcome # "ok" THEN ErrorResult(<<"Error creating activity: ", outcome>>)
       ELSE [NoResult EXCEPT !.row = InsertedRow(rows, args.lesson_id, args)]
\* an inputSchema whose type is any string
InputSchemaAcceptsAnyKind(args) == TRUE
\* the inputSchema of create_activity (lines 128-137): type is one of the
\* three kinds (every other argument of the calls here is of its type)
InputSchemaAccepts(args) == args.type \in Kinds
\* what a call whose arguments the inputSchema refuses is answered: an error
\* of the protocol engine, the handler not run
CreateActivityTool(args, outcome) ==
    \E result \in { IF InputSchemaAccepts(args) THEN CreateActivityResult(activities, args, outcome)
                     ELSE ErrorResult(<<"Invalid arguments for tool create_activity">>) } :
       /\ result.isError \/ Len(activities) < MaxRows
       \* a query that is not reached has no outcome
       /\ outcome = "ok" \/ result.text = <<"Error creating activity: ", outcome>>
       /\ activities' = IF result.isError THEN activities ELSE Append(activities, result.row)
       /\ lastOp' = [NoLast EXCEPT !.op = "create_activity", !.lesson_id = args.lesson_id,
                                   !.type = args.type, !.body_data = args.body_data,
                                   !.is_summative = args.is_summative, !.order_by = args.order_by,
                                   !.notes = args.notes, !.result = result]
       /\ UNCHANGED <<multiplexer, auth, val>>

\* activityQueries.create (types/index.ts lines 163-179) called on its own
\* a multiple-choice payload validateBodyData rejects, a summative text, and
\* a kind that is none of the three
GatewayInputs ==
    {i \in PlainInputs : \/ i.body_data = McqBodyBad /\ i.is_summative = Undef
                         \/ i.body_data = TextBody /\ i.is_summative = Bool(TRUE)}
    \cup {i \in OtherInputs : i.type \notin Kinds}
Create(input, outcome) ==
    /\ Len(activities) < MaxRows
    /\ activities' = IF outcome = "ok"
                     THEN Append(activities, InsertedRow(activities, input.lesson_id, input))
                     ELSE activities
    /\ lastOp' = [NoLast EXCEPT !.op = "create", !.lesson_id = input.lesson_id,
                                !.type = input.type, !.body_data = input.body_data,
                                !.is_summative = input.is_summative, !.order_by = input.order_by,
                                !.notes = input.notes,
                                !.result = IF outcome = "ok"
                                           THEN [NoResult EXCEPT !.row = InsertedRow(activities, input.lesson_id, input)]
                                           ELSE Thrown(outcome)]
    /\ UNCHANGED <<multiplexer, auth, val>>

\* activityQueries.bulkCreate (lines 181-203): one INSERT per activity, in
\* order, under lessonId; the insert at position failAt throws and the
\* rows inserted before it stay
RECURSIVE InsertAll(_, _, _)
InsertAll(rows, lessonId, inputs) ==
    IF inputs = << >> THEN rows
    ELSE InsertAll(Append(rows, InsertedRow(rows, lessonId, Head(inputs))), lessonId, Tail(inputs))
BulkLists == UNION {[1..n -> {i \in GatewayInputs : i.body_data = TextBody}] : n \in 0..MaxRows}
BulkCreate(lessonId, inputs, failAt, outcome) ==
    LET done == IF outcome = "ok" THEN inputs ELSE SubSeq(inputs, 1, failAt - 1)
        after == InsertAll(activities, lessonId, done)
    IN /\ Len(activities) + Len(inputs) <= MaxRows
       /\ failAt \in 1..Len(inputs) \/ (outcome = "ok" /\ failAt = 1)
       /\ activities' = after
       /\ lastOp' = [NoLast EXCEPT !.op = "bulkCreate", !.lesson_id = lessonId,
                                   !.result = IF outcome = "ok"
                                              THEN [NoResult EXCEPT !.rows = SubSeq(after, Len(activities) + 1, Len(after))]
                                              ELSE Thrown(outcome)]
       /\ UNCHANGED <<multiplexer, auth, val>>

\* activityQueries.update (lines 205-249): every member of updates that is
\* not undefined is SET; with none, the row is read by getById; no row with
\* that id gives null
\* `if (updates.x)` in place of `if (updates.x !== undefined)`
SetTruthy(updates, key, old, new) == IF ~Falsy(updates[key]) THEN new ELSE old
Set(updates, key, old, new) == IF updates[key] # Undef THEN new ELSE old
Updated(a, updates) ==
    [a EXCEPT !.title = Set(updates, "title", @, updates.title.v[1]),
              !.type = Set(updates, "type", @, updates.type.v[1]),
              !.body_data = Set(updates, "body_data", @, JsonParse(JsonStringify(updates.body_data.v[1]))),
              !.order_by = Set(updates, "order_by", @, updates.order_by),
              !.is_summative = Set(updates, "is_summative", @, updates.is_summative),
              !.notes = Set(updates, "notes", @, updates.notes)]
\* the updates: none, a type, an is_summative, and a title, a body_data, an
\* order_by of 0 and notes of '' together
UpdatesVals ==
    { NoUpdates, [NoUpdates EXCEPT !.type = Str(<<"text">>)],
      [NoUpdates EXCEPT !.is_summative = Bool(TRUE)],
      [NoUpdates EXCEPT !.title = Str(<<"u">>), !.body_data = Obj(TextBodyEmpty),
                        !.order_by = Number(0), !.notes = Str(<< >>)] }
Update(activityId, updates, outcome) ==
    LET found == activityId \in 1..Len(activities)
        row == IF found THEN Updated(activities[activityId], updates) ELSE NoRow
    IN /\ activities' = IF found /\ outcome = "ok"
                        THEN [activities EXCEPT ![activityId] = row] ELSE activities
       /\ lastOp' = [NoLast EXCEPT !.op = "update", !.id = activityId, !.updates = updates,
                                   !.result = IF outcome = "ok" THEN [NoResult EXCEPT !.row = row]
                                              ELSE Thrown(outcome)]
       /\ UNCHANGED <<multiplexer, auth, val>>

\* a delete that is a DELETE FROM activities: the row goes away
DeleteRemovingRow(activityId, outcome) ==
    LET found == activityId \in 1..Len(activities)
    IN /\ activities' = IF found /\ outcome = "ok"
                        THEN SelectSeq(activities, LAMBDA a : a.activity_id # activityId) ELSE activities
       /\ lastOp' = [NoLast EXCEPT !.op = "delete", !.id = activityId,
                                   !.result = IF outcome = "ok" THEN [NoResult EXCEPT !.bool = found]
                                              ELSE Thrown(outcome)]
       /\ UNCHANGED <<multiplexer, auth, val>>
\* activityQueries.delete (lines 251-257): active becomes false, the row
\* stays; true when a row had that id
Delete(activityId, outcome) ==
    LET found == activityId \in 1..Len(activities)
    IN /\ activities' = IF found /\ outcome = "ok"
                        THEN [activities EXCEPT ![activityId].active = FALSE] ELSE activities
       /\ lastOp' = [NoLast EXCEPT !.op = "delete", !.id = activityId,
                                   !.result = IF outcome = "ok" THEN [NoResult EXCEPT !.bool = found]
                                              ELSE Thrown(outcome)]
       /\ UNCHANGED <<multiplexer, auth, val>>

\* list_activities (server.ts lines 176-191): the rows of getAll, or the
\* message of what it threw
ListActivitiesTool(lessonId, outcome) ==
    /\ activities' = activities
    /\ lastOp' = [NoLast EXCEPT !.op = "list_activities", !.lesson_id = lessonId,
                                !.result = IF outcome = "ok"
                                           THEN [NoResult EXCEPT !.rows = GetAll(activities, lessonId)]
                                           ELSE ErrorResult(<<"Error listing activities: ", outcome>>)]
    /\ UNCHANGED <<multiplexer, auth, val>>

(* --------------- units and lessons: the read tools ----------------------- *)
\* the units and lessons tables, which nothing in this program writes: a unit
\* and a lesson whose active is NULL, and ones that are switched off
UnitRows ==
    << [unit_id |-> "U1", title |-> <<"b">>, subject |-> <<"m">>, year |-> Number(7), active |-> Bool(TRUE)],
       [unit_id |-> "U2", title |-> <<"a">>, subject |-> <<"m">>, year |-> Null, active |-> Null],
       [unit_id |-> "U3", title |-> <<"a">>, subject |-> <<"a">>, year |-> Number(7), active |-> Bool(FALSE)] >>
LessonRows ==
    << [lesson_id |-> "L1", unit_id |-> "U1", title |-> <<"a", "B">>, active |-> Bool(TRUE), order_by |-> Number(2)],
       [lesson_id |-> "L2", unit_id |-> "U1", title |-> <<"b">>, active |-> Null, order_by |-> Number(1)],
       [lesson_id |-> "L3", unit_id |-> "U2", title |-> <<"a">>, active |-> Bool(FALSE), order_by |-> Number(1)] >>
\* COALESCE(active, true) = true
IsActive(row) == (IF row.active = Null THEN Bool(TRUE) ELSE row.active) = Bool(TRUE)
\* the order of two strings of letters in ORDER BY
CharRank(c) == CHOOSE i \in 1..Len(Letters) : Letters[i] = LowerChar(c)
RECURSIVE StrLess(_, _)
StrLess(a, b) ==
    IF b = << >> THEN FALSE
    ELSE IF a = << >> THEN TRUE
    ELSE IF CharRank(Head(a)) # CharRank(Head(b)) THEN CharRank(Head(a)) < CharRank(Head(b))
    ELSE StrLess(Tail(a), Tail(b))
\* title LIKE pattern: % is any run of characters, _ any one character
RECURSIVE Like(_, _)
Like(str, pattern) ==
    IF pattern = << >> THEN str = << >>
    ELSE IF Head(pattern) = "%"
         THEN \E i \in 0..Len(str) : Like(SubSeq(str, i + 1, Len(str)), Tail(pattern))
    ELSE /\ str # << >>
         /\ Head(pattern) = "_" \/ Head(pattern) = Head(str)
         /\ Like(Tail(str), Tail(pattern))

\* unitQueries.getAll (types/index.ts lines 60-85) as list_units calls it,
\* with subject and year and no active
UnitBefore(a, b) ==
    IF a.subject # b.subject THEN StrLess(a.subject, b.subject) ELSE StrLess(a.title, b.title)
UnitGetAll(filters) ==
    SortSeq(SelectSeq(UnitRows, LAMBDA u :
                /\ ~Falsy(filters.subject) => u.subject = filters.subject.v
                /\ filters.year # Undef => u.year = filters.year
                /\ IsActive(u)), UnitBefore)
\* lessonQueries.getAll (lines 97-117) as list_lessons_for_unit calls it
LessonBefore(a, b) ==
    IF a.unit_id # b.unit_id THEN StrLess(<<a.unit_id>>, <<b.unit_id>>)
    ELSE IF a.order_by # b.order_by THEN a.order_by.v[1] < b.order_by.v[1]
    ELSE StrLess(a.title, b.title)
LessonGetAll(filters) ==
    SortSeq(SelectSeq(LessonRows, LAMBDA l :
                /\ ~Falsy(filters.unit_id) => <<l.unit_id>> = filters.unit_id.v
                /\ IsActive(l)), LessonBefore)
\* lessonQueries.findByTitle (lines 127-141)
FoundBefore(a, b) ==
    IF a.order_by # b.order_by THEN a.order_by.v[1] < b.order_by.v[1] ELSE StrLess(a.title, b.title)
FindByTitle(title, unitId) ==
    SortSeq(SelectSeq(LessonRows, LAMBDA l :
                /\ Like(ToLower(l.title), ToLower(<<"%">> \o title.v \o <<"%">>))
                /\ ~Falsy(unitId) => <<l.unit_id>> = unitId.v
                /\ IsActive(l)), FoundBefore)

\* the arguments the read tools are called with
UnitFilters == { [subject |-> Undef, year |-> Undef], [subject |-> Str(<<"m">>), year |-> Number(7)] }
FindArgs ==
    { [title |-> Str(<<"A">>), unit_id |-> Str(<<"U1">>)], [title |-> Str(<<"_">>), unit_id |-> Undef] }

\* a read tool without the catch block
ReadToolResultNoCatch(prefix, rows, outcome) ==
    IF outcome = "ok" THEN [NoResult EXCEPT !.rows = rows] ELSE Thrown(outcome)
\* a read tool (server.ts lines 77-90, 98-107, 116-125): the rows of its
\* query, or in the catch block the prefix of the tool and the message of
\* what the query threw
ReadToolResult(prefix, rows, outcome) ==
    IF outcome = "ok" THEN [NoResult EXCEPT !.rows = rows] ELSE ErrorResult(<<prefix, outcome>>)
ReadTool(op, result) ==
    /\ lastOp' = [NoLast EXCEPT !.op = op, !.result = result]
    /\ UNCHANGED <<multiplexer, auth, val, activities>>
ListUnitsTool(args, outcome) ==
    ReadTool("list_units", ReadToolResult("Error listing units: ", UnitGetAll(args), outcome))
ListLessonsForUnitTool(args, outcome) ==
    ReadTool("list_lessons_for_unit",
             ReadToolResult("Error listing lessons: ", LessonGetAll([unit_id |-> args]), outcome))
FindLessonTool(args, outcome) ==
    /\ lastOp' = [NoLast EXCEPT !.op = "find_lesson", !.title = args.title, !.unit_id = args.unit_id,
                                !.result = ReadToolResult("Error finding lessons: ",
                                                          FindByTitle(args.title, args.unit_id), outcome)]
    /\ UNCHANGED <<multiplexer, auth, val, activities>>

CatalogNext ==
    \/ \E args \in CreateActivityInputs, outcome \in Outcomes : CreateActivityTool(args, outcome)
    \/ \E input \in GatewayInputs, outcome \in Outcomes : Create(input, outcome)
    \/ \E inputs \in BulkLists, failAt \in 1..MaxRows, outcome \in Outcomes :
           BulkCreate("L2", inputs, failAt, outcome)
    \/ \E id \in 1..MaxRows, updates \in UpdatesVals, outcome \in Outcomes : Update(id, updates, outcome)
    \/ \E id \in 1..MaxRows, outcome \in Outcomes : Delete(id, outcome)
    \/ \E l \in Lessons, outcome \in Outcomes : ListActivitiesTool(l, outcome)
    \/ \E args \in UnitFilters, outcome \in Outcomes : ListUnitsTool(args, outcome)
    \/ \E args \in {Str(<<"U1">>)}, outcome \in Outcomes : ListLessonsForUnitTool(args, outcome)
    \/ \E args \in FindArgs, outcome \in Outcomes : FindLessonTool(args, outcome)

(* ---------------------- validateMcpKey (auth.ts) ----------------------- *)
\* config.mcp.serviceKey: never empty, the process exits at start-up otherwise
ServiceKey == <<"k", "1">>
\* the literal 'Bearer '
Bearer == <<"B", "e", "a", "r", "e", "r", " ">>

\* the first place at which pat occurs in s, 0 when it occurs nowhere
IndexOf(s, pat) ==
    LET at == {i \in 1..(Len(s) - Len(pat) + 1) : SubSeq(s, i, i + Len(pat) - 1) = pat}
    IN IF at = {} THEN 0 ELSE CHOOSE i \in at : \A j \in at : i <= j

\* String.prototype.replace(pat, rep) with a string pattern: the first
\* occurrence of pat, wherever it is, is replaced
Replace(s, pat, rep) ==
    LET i == IndexOf(s, pat)
    IN IF i = 0 THEN s
       ELSE SubSeq(s, 1, i - 1) \o rep \o SubSeq(s, i + Len(pat), Len(s))

\* authHeader?.replace('Bearer ', '') || mcpKey ; an absent header and an
\* empty one are both falsy and are both the empty sequence here
ProvidedKey(authHeader, mcpKey) ==
    LET stripped == Replace(authHeader, Bearer, << >>)
    IN IF Truthy(stripped) THEN stripped ELSE mcpKey

\* what the middleware does with a request: answers 401 "Unauthorized",
\* answers 403 "Forbidden", or calls next()
ValidateMcpKey(authHeader, mcpKey) ==
    LET providedKey == ProvidedKey(authHeader, mcpKey)
    IN IF ~Truthy(providedKey) THEN "Unauthorized"
       ELSE IF providedKey # ServiceKey THEN "Forbidden"
       ELSE "next"

\* values of the Authorization header: absent, the key or another value
\* behind the bearer scheme, behind no scheme, behind the scheme in lower case
\* or written twice, the scheme alone, and 'Bearer ' inside the value
AuthorizationVals ==
    { << >>, Bearer \o ServiceKey, Bearer \o <<"k">>, Bearer \o <<"K", "1">>, Bearer \o <<"k", "1", "2">>,
      ServiceKey, <<"k">>, Bearer, <<"b", "e", "a", "r", "e", "r", " ">> \o ServiceKey,
      Bearer \o Bearer \o ServiceKey, <<"k">> \o Bearer \o <<"1">> }
\* values of the x-mcp-key header
McpKeyVals == { << >>, ServiceKey, <<"k">>, <<"K", "1">>, <<"k", "1", "2">>, Bearer \o ServiceKey }

\* no request has been handed to the middleware
NoAuth == [authorization |-> << >>, mcpKey |-> << >>, res |-> "idle"]

\* the process right after its modules are loaded
MultiplexerInit ==
    /\ started = FALSE
    /\ listening = FALSE
    /\ exited = FALSE
    /\ req = [r \in Req |-> NoReq]
    /\ arrived = NoArrival
    /\ resp = NoResp
    /\ eng = [r \in Req |-> NoEng]
    /\ sessions = << >>
    /\ nSet = 0
    /\ nEvict = 0
    /\ issued = {}
    /\ evicted = {}
    /\ closedIds = {}
    /\ sd = [s \in Calls |-> NoSd]
    /\ dbClosed = 0

Init ==
    /\ MultiplexerInit
    /\ auth = NoAuth
    /\ val = NoVal
    /\ CatalogInit

\* startupChecks().then(() => { httpServer = app.listen(...) })
Startup ==
    /\ ~exited
    /\ arrived' = NoArrival
    /\ ~started
    /\ started' = TRUE
    /\ listening' = TRUE
    /\ UNCHANGED <<others, exited, req, eng, sessions, nSet, nEvict, issued, evicted, closedIds, sd, dbClosed>>
    /\ resp' = NoResp

\* requests are delivered while the process is serving, and take the slots
\* in order of arrival
CanArrive(r) ==
    /\ started /\ listening /\ ~exited
    /\ req[r].pc = "idle"
    /\ \A q \in Req : q < r => req[q].pc # "idle"

\* what an mcp-session-id that does not resolve is
Stale(h) == IF ~Truthy(h) THEN "no" ELSE IF h \in evicted THEN "closed" ELSE "never"

\* the response of request r is complete, with result `res` and session id
\* header `tok`; `rec` is the request as the handler saw it
Complete(r, rec, res, tok) ==
    /\ req' = [req EXCEPT ![r] = DoneReq]
    /\ resp' = [method |-> rec.method, hdr |-> rec.hdr, stale |-> rec.stale, res |-> res, tok |-> tok]

\* the registry becomes m2 after closes ran for the ids closedNow; the entries
\* that went away are counted as evicted
SetRegistry(m2, closedNow) ==
    /\ sessions' = m2
    /\ nEvict' = nEvict + Cardinality(DOMAIN sessions \ DOMAIN m2)
    /\ evicted' = evicted \cup (DOMAIN sessions \ DOMAIN m2)
    /\ closedIds' = closedIds \cup closedNow

\* the ids the onclose of a transport with session id `id` runs for
OnCloseIds(id) == IF Truthy(id) THEN {id} ELSE {}
Closed(e) == eng[e].closes > 0

\* a close callback that forgets the delete, and one that clears the registry
TransportOnCloseKeeps(m, id) == m
TransportOnCloseClears(m, id) == IF Truthy(id) THEN << >> ELSE m

\* transport.onclose = () => { const id = transport.sessionId; if (id) sessions.delete(id) }
TransportOnClose(m, id) == IF Truthy(id) THEN MapDelete(m, id) ELSE m

\* transport.close() / server.close(): the pair is closed and its onclose runs
ClosePair(e) ==
    /\ eng' = [eng EXCEPT ![e].closes = @ + 1]
    /\ SetRegistry(TransportOnClose(sessions, eng[e].sessionId), OnCloseIds(eng[e].sessionId))

(* ------------------ validateMcpKey in front of /mcp -------------------- *)
\* the credentials a request on /mcp brings, as <<Authorization, x-mcp-key>>:
\* none, a wrong key, the service key in either header, and a wrong
\* Authorization next to the service key in x-mcp-key
RouteCredentials ==
    { << << >>, << >> >>, << Bearer \o <<"k">>, << >> >>, << Bearer \o ServiceKey, << >> >>,
      << << >>, ServiceKey >>, << Bearer \o <<"k">>, ServiceKey >> }

\* what validateMcpKey does with each of them
RouteOutcome == [c \in RouteCredentials |-> ValidateMcpKey(c[1], c[2])]
\* validateMcpKey called next(): the route handler runs
Authenticated(c) == RouteOutcome[c] = "next"

\* a middleware that answers 401 or 403 and then calls next() all the same:
\* the handler of a POST runs on the rejected request
RejectedThenNext(r, method, h, b, c) ==
    /\ CanArrive(r)
    /\ ~Authenticated(c)
    /\ arrived' = NoArrival
    /\ resp' = [NoResp EXCEPT !.method = method, !.hdr = Resolve(sessions, h),
                              !.res = RouteOutcome[c]]
    /\ req' = [req EXCEPT ![r] = [NoReq EXCEPT !.method = "POST", !.body = b, !.pc = "connect_await"]]
    /\ eng' = [eng EXCEPT ![r].created = TRUE]
    /\ UNCHANGED <<others, started, listening, exited, sessions, nSet, nEvict, issued, evicted, closedIds, sd, dbClosed>>

\* app.post | get | delete ('/mcp', validateMcpKey, ...) with a request the
\* middleware rejects (auth.ts lines 15-31): it answers 401 or 403 and returns
\* without calling next(), whatever mcp-session-id h and body b the request
\* carries; the response records the session the header names, if it names one
Rejected(r, method, h, b, c) ==
    /\ CanArrive(r)
    /\ ~Authenticated(c)
    /\ arrived' = NoArrival
    /\ Complete(r, [NoReq EXCEPT !.method = method, !.hdr = Resolve(sessions, h)],
                RouteOutcome[c], NoSessionId)
    /\ UNCHANGED <<others, started, listening, exited, eng, sessions, nSet, nEvict, issued, evicted, closedIds, sd, dbClosed>>

(* --------------------------- POST /mcp ---------------------------------- *)
\* a handler that awaits between the lookup of the session and the call of
\* its transport: the routed request waits outside the engine
PostBeginDeferred(r, h, b) ==
    /\ CanArrive(r)
    /\ arrived' = [method |-> "POST", hdr |-> h]
    /\ LET k == Resolve(sessions, h) IN
       IF k # NoSessionId
       THEN /\ req' = [req EXCEPT ![r] = [NoReq EXCEPT !.method = "POST", !.hdr = h, !.body = b,
                                           !.pc = "respond_await"]]
            /\ UNCHANGED eng
       ELSE /\ req' = [req EXCEPT ![r] = [NoReq EXCEPT !.method = "POST", !.stale = Stale(h), !.body = b,
                                           !.pc = "connect_await"]]
            /\ eng' = [eng EXCEPT ![r].created = TRUE]
    /\ UNCHANGED <<others, started, listening, exited, sessions, nSet, nEvict, issued, evicted, closedIds, sd, dbClosed>>
    /\ resp' = NoResp

\* lines 50-56 and 58-76: the handler up to its first await
PostBegin(r, h, b) ==
    /\ CanArrive(r)
    /\ arrived' = [method |-> "POST", hdr |-> h]
    /\ LET k == Resolve(sessions, h) IN
       IF k # NoSessionId
       THEN /\ req' = [req EXCEPT ![r] = [NoReq EXCEPT !.method = "POST", !.hdr = h, !.body = b,
                                           !.pc = "fwd_await", !.target = sessions[k].transport]]
            /\ UNCHANGED eng
       ELSE /\ req' = [req EXCEPT ![r] = [NoReq EXCEPT !.method = "POST", !.stale = Stale(h), !.body = b,
                                           !.pc = "connect_await"]]
            /\ eng' = [eng EXCEPT ![r].created = TRUE]
    /\ UNCHANGED <<others, started, listening, exited, sessions, nSet, nEvict, issued, evicted, closedIds, sd, dbClosed>>
    /\ resp' = NoResp

\* line 76 resumes: server.connect(transport) resolved, or threw (catch, lines 78-83)
PostConnected(r) ==
    /\ ~exited
    /\ arrived' = NoArrival
    /\ req[r].pc = "connect_await"
    /\ \/ /\ eng' = [eng EXCEPT ![r].connected = TRUE]
          /\ req' = [req EXCEPT ![r].pc = "handshake_await"]
          /\ resp' = NoResp
       \/ /\ UNCHANGED eng
          /\ Complete(r, req[r], "InternalError", NoSessionId)
    /\ UNCHANGED <<others, started, listening, exited, sessions, nSet, nEvict, issued, evicted, closedIds, sd, dbClosed>>

\* a callback that does not register the session
OnSessionInitializedDrops(m, id, e, stamp) == m

\* onsessioninitialized: (id) => { sessions.set(id, { server, transport }) }
OnSessionInitialized(m, id, e, stamp) ==
    MapSet(m, id, [server |-> e, transport |-> e, stamp |-> stamp])

\* a handler that registers the pair itself before it calls handleRequest,
\* so that the entry is there whatever the handshake does
PostHandshakeEager(r) ==
    /\ ~exited
    /\ arrived' = NoArrival
    /\ req[r].pc = "handshake_await"
    /\ ~Closed(r)
    /\ \E id \in SessionIdGenerator(issued) :
          /\ eng' = [eng EXCEPT ![r].sessionId = id]
          /\ sessions' = MapSet(sessions, id, [server |-> r, transport |-> r, stamp |-> nSet + 1])
          /\ issued' = issued \cup {id}
    /\ nSet' = nSet + 1
    /\ \/ /\ req[r].body = "init"
          /\ req' = [req EXCEPT ![r].pc = "respond_await"]
          /\ resp' = NoResp
       \/ Complete(r, req[r], "TransportRejected", NoSessionId)
       \/ Complete(r, req[r], "InternalError", NoSessionId)
    /\ UNCHANGED <<others, started, listening, exited, nEvict, evicted, closedIds, sd, dbClosed>>

\* line 77: transport.handleRequest on the new transport. An initialize body
\* makes the transport generate its id and fire onsessioninitialized, which it
\* does only on a transport that is not closed and only in a handshake it
\* goes on to answer; any body can be answered with an error by the
\* transport, or throw (lines 78-83).
PostHandshake(r) ==
    /\ ~exited
    /\ arrived' = NoArrival
    /\ req[r].pc = "handshake_await"
    /\ \/ /\ req[r].body = "init"
          /\ ~Closed(r)
          /\ \E id \in SessionIdGenerator(issued) :
                /\ eng' = [eng EXCEPT ![r].sessionId = id]
                /\ sessions' = OnSessionInitialized(sessions, id, r, nSet + 1)
                /\ issued' = issued \cup {id}
          /\ nSet' = nSet + 1
          /\ req' = [req EXCEPT ![r].pc = "respond_await"]
          /\ resp' = NoResp
       \/ /\ UNCHANGED <<eng, sessions, issued, nSet>>
          /\ Complete(r, req[r], "TransportRejected", NoSessionId)
       \/ /\ UNCHANGED <<eng, sessions, issued, nSet>>
          /\ Complete(r, req[r], "InternalError", NoSessionId)
    /\ UNCHANGED <<others, started, listening, exited, nEvict, evicted, closedIds, sd, dbClosed>>

\* line 77 resolves: the initialize response, carrying the session id, is complete
PostRespond(r) ==
    /\ ~exited
    /\ arrived' = NoArrival
    /\ req[r].pc = "respond_await"
    /\ UNCHANGED eng
    /\ Complete(r, req[r], "ok", eng[r].sessionId)
    /\ UNCHANGED <<others, started, listening, exited, sessions, nSet, nEvict, issued, evicted, closedIds, sd, dbClosed>>

(* ---------------------------- GET /mcp ---------------------------------- *)
\* a GET handler that starts a session, as the POST handler does, when the
\* header resolves to none
GetBeginStartingSession(r, h) ==
    /\ CanArrive(r)
    /\ arrived' = [method |-> "GET", hdr |-> h]
    /\ LET k == Resolve(sessions, h)
           rec == [NoReq EXCEPT !.method = "GET", !.hdr = h] IN
       IF k = NoSessionId
       THEN /\ req' = [req EXCEPT ![r] = [NoReq EXCEPT !.method = "GET", !.stale = Stale(h),
                                           !.body = "init", !.pc = "connect_await"]]
            /\ eng' = [eng EXCEPT ![r].created = TRUE]
       ELSE /\ req' = [req EXCEPT ![r] = [rec EXCEPT !.pc = "fwd_await", !.target = sessions[k].transport]]
            /\ UNCHANGED eng
    /\ resp' = NoResp
    /\ UNCHANGED <<others, started, listening, exited, sessions, nSet, nEvict, issued, evicted, closedIds, sd, dbClosed>>

\* lines 88-95: the handler up to its await
GetBegin(r, h) ==
    /\ CanArrive(r)
    /\ arrived' = [method |-> "GET", hdr |-> h]
    /\ UNCHANGED eng
    /\ LET k == Resolve(sessions, h)
           rec == [NoReq EXCEPT !.method = "GET", !.hdr = h] IN
       IF k = NoSessionId
       THEN Complete(r, [rec EXCEPT !.stale = Stale(h)], "SessionNotFound", NoSessionId)
       ELSE /\ req' = [req EXCEPT ![r] = [rec EXCEPT !.pc = "fwd_await", !.target = sessions[k].transport]]
            /\ resp' = NoResp
    /\ UNCHANGED <<others, started, listening, exited, sessions, nSet, nEvict, issued, evicted, closedIds, sd, dbClosed>>

\* lines 54 and 95: session.transport.handleRequest of a routed POST or GET
\* resolved (answered by the transport, with or without an error), or threw
Forwarded(r) ==
    /\ ~exited
    /\ arrived' = NoArrival
    /\ req[r].pc = "fwd_await"
    /\ UNCHANGED eng
    /\ \E o \in {"ok", "TransportRejected", "InternalError"} :
          Complete(r, req[r], o, NoSessionId)
    /\ UNCHANGED <<others, started, listening, exited, sessions, nSet, nEvict, issued, evicted, closedIds, sd, dbClosed>>

(* --------------------------- DELETE /mcp -------------------------------- *)
\* a handler without the check of line 107: sessions.get(sessionId)! is
\* undefined for an unknown id and the handler ends in its catch block
DeleteBeginUnchecked(r, h) ==
    /\ CanArrive(r)
    /\ arrived' = [method |-> "DELETE", hdr |-> h]
    /\ UNCHANGED eng
    /\ LET k == Resolve(sessions, h)
           rec == [NoReq EXCEPT !.method = "DELETE", !.hdr = h] IN
       IF k = NoSessionId
       THEN Complete(r, [rec EXCEPT !.stale = Stale(h)], "InternalError", NoSessionId)
       ELSE /\ req' = [req EXCEPT ![r] = [rec EXCEPT !.pc = "del_await", !.target = sessions[k].transport]]
            /\ resp' = NoResp
    /\ UNCHANGED <<others, started, listening, exited, sessions, nSet, nEvict, issued, evicted, closedIds, sd, dbClosed>>

\* lines 106-113: the handler up to its await
DeleteBegin(r, h) ==
    /\ CanArrive(r)
    /\ arrived' = [method |-> "DELETE", hdr |-> h]
    /\ UNCHANGED eng
    /\ LET k == Resolve(sessions, h)
           rec == [NoReq EXCEPT !.method = "DELETE", !.hdr = h] IN
       IF k = NoSessionId
       THEN Complete(r, [rec EXCEPT !.stale = Stale(h)], "SessionNotFound", NoSessionId)
       ELSE /\ req' = [req EXCEPT ![r] = [rec EXCEPT !.pc = "del_await", !.target = sessions[k].transport]]
            /\ resp' = NoResp
    /\ UNCHANGED <<others, started, listening, exited, sessions, nSet, nEvict, issued, evicted, closedIds, sd, dbClosed>>

\* line 113: the transport handles the DELETE: it closes itself (onclose
\* runs), or answers with an error without closing, or throws (lines 116-121)
DeleteHandled(r) ==
    /\ ~exited
    /\ arrived' = NoArrival
    /\ req[r].pc = "del_await"
    /\ \/ /\ ClosePair(req[r].target)
          /\ req' = [req EXCEPT ![r].pc = "del_resume", ![r].res = "ok"]
          /\ resp' = NoResp
       \/ /\ req' = [req EXCEPT ![r].pc = "del_resume", ![r].res = "TransportRejected"]
          /\ UNCHANGED <<eng, sessions, nEvict, evicted, closedIds>>
          /\ resp' = NoResp
       \/ /\ UNCHANGED <<eng, sessions, nEvict, evicted, closedIds>>
          /\ Complete(r, req[r], "InternalError", NoSessionId)
    /\ UNCHANGED <<others, started, listening, exited, nSet, issued, sd, dbClosed>>

\* lines 114-115 after the await: sessions.delete(sessionId)
DeleteResume(r) ==
    /\ ~exited
    /\ arrived' = NoArrival
    /\ req[r].pc = "del_resume"
    /\ SetRegistry(MapDelete(sessions, req[r].hdr), {req[r].hdr})
    /\ UNCHANGED eng
    /\ Complete(r, req[r], req[r].res, NoSessionId)
    /\ UNCHANGED <<others, started, listening, exited, nSet, issued, sd, dbClosed>>

(* ---------------------- abnormal transport close ------------------------ *)
\* the transport of a connected pair signals close (disconnect, socket error)
AbnormalClose(e) ==
    /\ ~exited
    /\ arrived' = NoArrival
    /\ eng[e].connected
    /\ ~Closed(e)
    /\ ClosePair(e)
    /\ UNCHANGED <<others, started, listening, exited, req, nSet, issued, sd, dbClosed>>
    /\ resp' = NoResp

(* ------------------------------ shutdown -------------------------------- *)
\* the Map iterator of `for (const [id, session] of sessions)`: the entries
\* in insertion order that the iterator has not passed yet
Unvisited(m, last) == {k \in DOMAIN m : m[k].stamp > last}
NextEntry(m, last) ==
    CHOOSE k \in Unvisited(m, last) : \A x \in Unvisited(m, last) : m[k].stamp <= m[x].stamp

\* one turn of the loop header (line 174) on the registry m, after closes ran
\* for the ids `cl`: either the next entry is taken and its server.close() is
\* called (line 175), which closes the pair or rejects, or the loop is over
\* and db.close() is called (line 178)
LoopTurn(s, m, cl, closeOk) ==
    IF Unvisited(m, sd[s].last) = {}
    THEN /\ sd' = [sd EXCEPT ![s].pc = "db_await", ![s].cur = NoSessionId]
         /\ dbClosed' = dbClosed + 1
         /\ SetRegistry(m, cl)
         /\ UNCHANGED eng
    ELSE LET k == NextEntry(m, sd[s].last)
             e == m[k].server IN
         /\ dbClosed' = dbClosed
         /\ IF closeOk
            THEN /\ sd' = [sd EXCEPT ![s].pc = "close_await", ![s].cur = k, ![s].last = m[k].stamp]
                 /\ eng' = [eng EXCEPT ![e].closes = @ + 1]
                 /\ SetRegistry(TransportOnClose(m, eng[e].sessionId), cl \cup OnCloseIds(eng[e].sessionId))
            ELSE /\ sd' = [sd EXCEPT ![s].pc = "aborted", ![s].cur = k, ![s].last = m[k].stamp]
                 /\ SetRegistry(m, cl)
                 /\ UNCHANGED eng

\* process.on('SIGINT' | 'SIGTERM', shutdown): lines 173-175 up to the first await
ShutdownBegin(s) ==
    /\ ~exited
    /\ sd[s].pc = "idle"
    /\ \A q \in Calls : q < s => sd[q].pc # "idle"
    /\ \E closeOk \in BOOLEAN : LoopTurn(s, sessions, {}, closeOk)
    /\ UNCHANGED <<others, started, listening, exited, req, nSet, issued>>
    /\ arrived' = NoArrival
    /\ resp' = NoResp

\* line 176 after the await: sessions.delete(id), then the next loop turn
ShutdownResume(s) ==
    /\ ~exited
    /\ sd[s].pc = "close_await"
    /\ \E closeOk \in BOOLEAN : LoopTurn(s, MapDelete(sessions, sd[s].cur), {sd[s].cur}, closeOk)
    /\ UNCHANGED <<others, started, listening, exited, req, nSet, issued>>
    /\ arrived' = NoArrival
    /\ resp' = NoResp

\* lines 179-182 after `await db.close()`: httpServer.close(callback); with
\* httpServer still undefined the call throws
ShutdownListenerClose(s) ==
    /\ ~exited
    /\ arrived' = NoArrival
    /\ sd[s].pc = "db_await"
    /\ IF started
       THEN /\ listening' = FALSE
            /\ sd' = [sd EXCEPT ![s].pc = "listener_closing"]
       ELSE /\ sd' = [sd EXCEPT ![s].pc = "aborted"]
            /\ UNCHANGED listening
    /\ UNCHANGED <<others, started, exited, req, eng, sessions, nSet, nEvict, issued, evicted, closedIds, dbClosed>>
    /\ resp' = NoResp

\* lines 180-181: the close callback runs process.exit(0)
ShutdownExit(s) ==
    /\ ~exited
    /\ arrived' = NoArrival
    /\ sd[s].pc = "listener_closing"
    /\ exited' = TRUE
    /\ sd' = [sd EXCEPT ![s].pc = "exited"]
    /\ UNCHANGED <<others, started, listening, req, eng, sessions, nSet, nEvict, issued, evicted, closedIds, dbClosed>>
    /\ resp' = NoResp

(* ------------------------- the /mcp routes ------------------------------ *)
\* app.post('/mcp', validateMcpKey, handler), app.get and app.delete (lines
\* 48, 86, 104): the handler runs on the requests validateMcpKey lets through
\* a request takes the first slot that is free, if the process is serving
Free == {r \in Req : CanArrive(r)}
PostMcp(r, h, b, c) == Authenticated(c) /\ PostBegin(r, h, b)
GetMcp(r, h, c) == Authenticated(c) /\ GetBegin(r, h)
DeleteMcp(r, h, c) == Authenticated(c) /\ DeleteBegin(r, h)

Next ==
    \/ Startup
    \/ \E r \in Free, method \in {"POST", "GET", "DELETE"}, h \in HeaderVals, b \in Bodies, c \in RouteCredentials :
          Rejected(r, method, h, b, c)
    \/ \E r \in Free, h \in HeaderVals, b \in Bodies, c \in RouteCredentials : PostMcp(r, h, b, c)
    \/ \E r \in Req : PostConnected(r)
    \/ \E r \in Req : PostHandshake(r)
    \/ \E r \in Req : PostRespond(r)
    \/ \E r \in Free, h \in HeaderVals, c \in RouteCredentials : GetMcp(r, h, c)
    \/ \E r \in Req : Forwarded(r)
    \/ \E r \in Free, h \in HeaderVals, c \in RouteCredentials : DeleteMcp(r, h, c)
    \/ \E r \in Req : DeleteHandled(r)
    \/ \E r \in Req : DeleteResume(r)
    \/ \E e \in Req : AbnormalClose(e)
    \/ \E s \in Calls : ShutdownBegin(s)
    \/ \E s \in Calls : ShutdownResume(s)
    \/ \E s \in Calls : ShutdownListenerClose(s)
    \/ \E s \in Calls : ShutdownExit(s)

Spec == Init /\ [][Next]_vars

\* the same process when every awaited close settles and the continuation
\* of shutdown() is then run by the event loop: a shutdown() that can go
\* on does go on
ShutdownFairness ==
    /\ WF_vars(\E s \in Calls : ShutdownResume(s))
    /\ WF_vars(\E s \in Calls : ShutdownListenerClose(s))
    /\ WF_vars(\E s \in Calls : ShutdownExit(s))
LiveSpec == Init /\ [][Next]_vars /\ ShutdownFairness

(* ------------------- validateMcpKey on its own ------------------------- *)
\* one request with any of the header values is handed to the middleware
AuthInit ==
    /\ MultiplexerInit
    /\ \E a \in AuthorizationVals, m \in McpKeyVals :
          auth = [authorization |-> a, mcpKey |-> m, res |-> "pending"]
    /\ val = NoVal
    /\ CatalogInit

\* auth.ts lines 8-36: the middleware runs on the request
Authenticate ==
    /\ auth.res = "pending"
    /\ auth' = [auth EXCEPT !.res = ValidateMcpKey(auth.authorization, auth.mcpKey)]
    /\ UNCHANGED <<multiplexer, val, catalog>>

AuthNext == Authenticate

AuthSpec == AuthInit /\ [][AuthNext]_vars

(* ------------------ validateBodyData on its own ------------------------ *)
\* one payload of one kind is handed to validateBodyData
ValidateInit ==
    /\ MultiplexerInit
    /\ auth = NoAuth
    /\ \E in \in ValInputs : val = [type |-> in[1], bodyData |-> in[2], pc |-> "pending", result |-> Accepted]
    /\ CatalogInit

\* server.ts lines 39-63 on the payload
Validate ==
    /\ val.pc = "pending"
    /\ val' = [val EXCEPT !.pc = "done", !.result = ValidateBodyData(val.type, val.bodyData)]
    /\ UNCHANGED <<multiplexer, auth, catalog>>

ValidateNext == Validate

ValidateSpec == ValidateInit /\ [][ValidateNext]_vars

\* the activities table under the catalog operations alone
CatalogSpec == Init /\ [][CatalogNext]_vars

(* ------------- requests of a session that is established ---------------- *)
\* the multiplexer once a handshake has completed and its request is gone
\* (lines 58-77): the listener accepts requests, the registry holds the pair
\* of that handshake under the id it was given, no request is in flight
Established == MaxReq + 1
EstablishedInit ==
    /\ started = TRUE
    /\ listening = TRUE
    /\ exited = FALSE
    /\ req = [r \in Req |-> NoReq]
    /\ arrived = NoArrival
    /\ resp = NoResp
    /\ eng = [e \in Req \cup {Established} |->
                IF e = Established
                THEN [NoEng EXCEPT !.created = TRUE, !.connected = TRUE, !.sessionId = Tok(1)]
                ELSE NoEng]
    /\ sessions = OnSessionInitialized(<< >>, Tok(1), Established, 1)
    /\ nSet = 1
    /\ nEvict = 0
    /\ issued = {Tok(1)}
    /\ evicted = {}
    /\ closedIds = {}
    /\ sd = [s \in Calls |-> NoSd]
    /\ dbClosed = 0
    /\ auth = NoAuth
    /\ val = NoVal
    /\ CatalogInit

\* the three routes and the continuations of their handlers, and a
\* transport that closes on its own
EstablishedNext ==
    \/ \E r \in Free, h \in HeaderVals, b \in Bodies, c \in RouteCredentials : PostMcp(r, h, b, c)
    \/ \E r \in Req : PostConnected(r)
    \/ \E r \in Req : PostHandshake(r)
    \/ \E r \in Req : PostRespond(r)
    \/ \E r \in Free, h \in HeaderVals, c \in RouteCredentials : GetMcp(r, h, c)
    \/ \E r \in Req : Forwarded(r)
    \/ \E r \in Free, h \in HeaderVals, c \in RouteCredentials : DeleteMcp(r, h, c)
    \/ \E r \in Req : DeleteHandled(r)
    \/ \E r \in Req : DeleteResume(r)
    \/ \E e \in Req \cup {Established} : AbnormalClose(e)

EstablishedSpec == EstablishedInit /\ [][EstablishedNext]_vars

(* ------------- SIGINT and SIGTERM, one after the other ------------------- *)
\* the shutdown() calls when one more signal is delivered than in Calls
Signals == 1..(MaxShutdowns + 1)
\* the process with one session established and no signal delivered yet
SignalsInit ==
    /\ started = TRUE
    /\ listening = TRUE
    /\ exited = FALSE
    /\ req = [r \in Req |-> NoReq]
    /\ arrived = NoArrival
    /\ resp = NoResp
    /\ eng = [e \in Req \cup {Established} |->
                IF e = Established
                THEN [NoEng EXCEPT !.created = TRUE, !.connected = TRUE, !.sessionId = Tok(1)]
                ELSE NoEng]
    /\ sessions = OnSessionInitialized(<< >>, Tok(1), Established, 1)
    /\ nSet = 1
    /\ nEvict = 0
    /\ issued = {Tok(1)}
    /\ evicted = {}
    /\ closedIds = {}
    /\ sd = [s \in Signals |-> NoSd]
    /\ dbClosed = 0
    /\ auth = NoAuth
    /\ val = NoVal
    /\ CatalogInit

\* the handlers of the signals and their continuations, and POSTs that
\* start further sessions meanwhile
SignalsNext ==
    \/ \E r \in Free, h \in HeaderVals, b \in Bodies, c \in RouteCredentials : PostMcp(r, h, b, c)
    \/ \E r \in Req : PostConnected(r)
    \/ \E r \in Req : PostHandshake(r)
    \/ \E r \in Req : PostRespond(r)
    \/ \E r \in Req : Forwarded(r)
    \/ \E s \in Signals : ShutdownBegin(s)
    \/ \E s \in Signals : ShutdownResume(s)
    \/ \E s \in Signals : ShutdownListenerClose(s)
    \/ \E s \in Signals : ShutdownExit(s)

SignalsSpec == SignalsInit /\ [][SignalsNext]_vars

TypeOK ==
    /\ started \in BOOLEAN /\ listening \in BOOLEAN /\ exited \in BOOLEAN
    /\ DOMAIN sessions \subseteq TokenPool
    /\ nSet \in Nat /\ nEvict \in Nat

(* ============================== claims ================================== *)

\* request r arrives in this step (its handler runs up to its first await)
Arrives(r) == req[r].pc = "idle" /\ req'[r].pc # "idle"
\* ... carrying an mcp-session-id that is not a key of the registry
ArrivesStale(r) ==
    /\ Arrives(r)
    /\ Truthy(arrived'.hdr)
    /\ arrived'.hdr \notin DOMAIN sessions
\* ... carrying an mcp-session-id that is a key of the registry
ArrivesKnown(r) ==
    /\ Arrives(r)
    /\ arrived'.hdr \in DOMAIN sessions

\* C1: a POST, GET or DELETE that carries an mcp-session-id which is not a
\* key of the registry ends with the SessionNotFound client error, creates
\* no engine or transport and leaves the registry unchanged.
C1_UnknownTokenIsSessionNotFound ==
    [][\A r \in Req : ArrivesStale(r) =>
          /\ req'[r].pc = "done"
          /\ resp'.res = "SessionNotFound"
          /\ eng' = eng
          /\ sessions' = sessions]_vars

\* what the code keeps of C1: a GET or DELETE with such an id is answered
\* with SessionNotFound and changes neither the pairs nor the registry
GetDeleteUnknownToken ==
    [][\A r \in Req : (ArrivesStale(r) /\ arrived'.method # "POST") =>
          /\ req'[r].pc = "done"
          /\ resp'.res = "SessionNotFound"
          /\ eng' = eng
          /\ sessions' = sessions]_vars

\* the pairs that hold a session id
Initialized == {e \in Req : Truthy(eng[e].sessionId)}

\* C2: no two engine/transport pairs hold the same session id, and an id
\* that was evicted is never a key of the registry again.
C2_OneSessionPerTokenNeverRevived ==
    /\ \A e1, e2 \in Initialized : e1 # e2 => eng[e1].sessionId # eng[e2].sessionId
    /\ evicted \cap DOMAIN sessions = {}

\* a POST that carried an evicted id has completed a handshake of its own
C2_Witness ==
    \E r \in Req :
        /\ req[r].stale = "closed"
        /\ req[r].pc = "respond_await"
        /\ eng[r].sessionId \in DOMAIN sessions
        /\ evicted # {}

\* C3: the number of registry entries is the number of handshakes that
\* assigned a session id minus the number of sessions a close has run for.
C3_RegistrySizeIsCreatedMinusClosed ==
    Cardinality(DOMAIN sessions) = nSet - Cardinality(closedIds)

\* two initiating POSTs are in flight at once, both past their handshake, and
\* one of the two sessions has been closed
C3_Witness ==
    /\ \E r1, r2 \in Req :
          /\ r1 # r2
          /\ req[r1].pc = "respond_await"
          /\ req[r2].pc = "respond_await"
    /\ nSet = 2
    /\ Cardinality(closedIds) = 1

\* the POST of r is on the new-session path and its response completes in
\* this step without a handshake having assigned an id
HandshakeFails(r) ==
    /\ req[r].pc \in {"connect_await", "handshake_await"}
    /\ req'[r].pc = "done"

OnCloseRuns(e) == eng'[e].closes = eng[e].closes + 1

\* C6: a run of the close callback of a transport leaves its session id out
\* of the registry, removes an entry only if that id was still a key, keeps
\* every other entry as it was, and every id is removed exactly once.
C6_OnCloseEvictsExactlyOnce ==
    [][\A e \in Req : OnCloseRuns(e) =>
          LET id == eng[e].sessionId IN
          /\ Truthy(id) => id \notin DOMAIN sessions'
          /\ \A k \in DOMAIN sessions : k # id => k \in DOMAIN sessions' /\ sessions'[k] = sessions[k]
          /\ nEvict' = nEvict + (IF id \in DOMAIN sessions THEN 1 ELSE 0)
          /\ nEvict' = Cardinality(evicted')]_vars

\* the close callback has run for a session while a DELETE for the same id
\* is in flight and the shutdown loop is suspended at its await
C6_Witness ==
    /\ \E r \in Req :
          /\ req[r].pc \in {"del_await", "del_resume"}
          /\ req[r].hdr \in evicted
          /\ eng[req[r].target].closes >= 1
    /\ \E s \in Calls : sd[s].pc = "close_await"

\* C7: once the session loop of shutdown is over (db.close() and then
\* httpServer.close() are called), the registry is empty and every pair that
\* was registered has been closed.
C7_ShutdownLeavesNoSession ==
    \A s \in Calls : sd[s].pc \in {"db_await", "listener_closing", "exited"} =>
        /\ DOMAIN sessions = {}
        /\ \A e \in Initialized : Closed(e)

\* C8 as claimed: a DELETE for an id that was closed before raises no error
\* and leaves the registry as it was.
C8_SecondDeleteRaisesNoError ==
    [][\A r \in Req : (Arrives(r) /\ arrived'.method = "DELETE" /\ arrived'.hdr \in evicted) =>
          /\ StatusOf(resp'.res) < 400
          /\ sessions' = sessions]_vars

\* C8 amended: a DELETE that arrives for an id that was closed before is
\* answered with the SessionNotFound client error, and a DELETE that was
\* routed before the id was evicted runs its own sessions.delete without an
\* error; both leave the registry and the pairs as they were.
C8_SecondCloseIsNoOp ==
    [][/\ \A r \in Req : (Arrives(r) /\ arrived'.method = "DELETE" /\ arrived'.hdr \in evicted) =>
             /\ req'[r].pc = "done"
             /\ resp'.res = "SessionNotFound"
             /\ sessions' = sessions
             /\ eng' = eng
       /\ \A r \in Req : (req[r].pc = "del_resume" /\ req'[r].pc = "done" /\ req[r].hdr \in evicted) =>
             /\ resp'.res = req[r].res
             /\ sessions' = sessions
             /\ eng' = eng]_vars

\* a DELETE for an evicted id has just been answered
C8_Witness ==
    /\ resp.method = "DELETE"
    /\ resp.res = "SessionNotFound"
    /\ resp.hdr \in evicted

\* the requests in flight on the pair e: routed to it, or its own initiating POST
InFlightOn(e) ==
    {q \in Req : req[q].pc \notin {"idle", "done"} /\ (req[q].target = e \/ q = e)}

\* every session other than `a` keeps its entry, its pair and its requests in flight
OthersUntouched(a) ==
    \A b \in DOMAIN sessions \ {a} :
        /\ b \in DOMAIN sessions'
        /\ sessions'[b] = sessions[b]
        /\ eng'[sessions[b].server] = eng[sessions[b].server]
        /\ \A q \in InFlightOn(sessions[b].transport) : req'[q] = req[q]

C10_RoutedByExactToken ==
    [][\A r \in Req :
          /\ ArrivesKnown(r) =>
                /\ req'[r].pc \in {"fwd_await", "del_await"}
                /\ req'[r].target = sessions[arrived'.hdr].transport
                /\ eng' = eng
                /\ sessions' = sessions
          /\ (Arrives(r) /\ req'[r].target # 0) =>
                /\ eng[req'[r].target].sessionId = arrived'.hdr
                /\ eng' = eng
                /\ sessions' = sessions]_vars

\* a request has just been routed to the session its header names
C10_Witness ==
    /\ Truthy(arrived.hdr)
    /\ \E r \in Req :
          /\ req[r].pc \in {"fwd_await", "del_await"}
          /\ req[r].hdr = arrived.hdr
          /\ sessions[arrived.hdr].transport = req[r].target

\* the part of C11 the code keeps: every registry entry holds the server and
\* the transport one initiating POST created together, stored under the id
\* that transport carries, and no pair is stored under two ids
C11_EntryOwnsItsPair ==
    /\ \A k \in DOMAIN sessions :
          /\ sessions[k].server = sessions[k].transport
          /\ eng[sessions[k].server].created
          /\ eng[sessions[k].server].sessionId = k
    /\ \A k1, k2 \in DOMAIN sessions :
          k1 # k2 => /\ sessions[k1].server # sessions[k2].server
                     /\ sessions[k1].transport # sessions[k2].transport

\* C11: every registry entry holds exactly one engine and one transport that
\* were created together in the same initiating request, no engine or
\* transport is reachable under two ids, and when a session is destroyed
\* (its id is evicted from the registry) its engine and transport are closed.
C11_PairCreatedAndDestroyedTogether ==
    /\ C11_EntryOwnsItsPair
    /\ \A e \in Initialized : eng[e].sessionId \in evicted => Closed(e)

\* the credential a header value carries: what follows the bearer scheme, or
\* the value itself when it does not start with the scheme
StartsWith(s, pat) == Len(s) >= Len(pat) /\ SubSeq(s, 1, Len(pat)) = pat
Credential(h) == IF StartsWith(h, Bearer) THEN SubSeq(h, Len(Bearer) + 1, Len(h)) ELSE h
Credentials == {Credential(auth.authorization), auth.mcpKey} \ {<< >>}

\* C12: a request with no credential in either header is answered 401, one
\* whose credential is present but wrong is answered 403, and one that
\* carries the service key in at least one of the two headers proceeds.
C12_KeyInEitherHeaderProceeds ==
    auth.res \notin {"idle", "pending"} =>
        /\ Credentials = {} => auth.res = "Unauthorized"
        /\ (Credentials # {} /\ ServiceKey \notin Credentials) => auth.res = "Forbidden"
        /\ ServiceKey \in Credentials => auth.res = "next"

\* what the code keeps of C12: the Authorization header decides whenever it
\* carries a credential, and the x-mcp-key header is read only when it does not
C12_AuthorizationDecidesFirst ==
    auth.res \notin {"idle", "pending"} =>
        LET c == Credential(auth.authorization)
            first == IF c # << >> THEN c ELSE auth.mcpKey IN
        \/ /\ first = << >> /\ auth.res = "Unauthorized"
        \/ /\ first = ServiceKey /\ auth.res = "next"
        \/ /\ first \notin {<< >>, ServiceKey}
           /\ \/ auth.res = "Forbidden"
              \/ /\ auth.res = "next"
                 /\ Replace(auth.authorization, Bearer, << >>) = ServiceKey

\* C13: a step that answers a request on /mcp with 401 or 403 leaves the
\* registry, the engine/transport pairs and the requests in flight as they
\* were: the request takes no handler position and has no transport to be
\* forwarded to, whatever session header and body it carries.
C13_RejectedNeverReachesMultiplexer ==
    [][resp'.res \in {"Unauthorized", "Forbidden"} =>
          /\ sessions' = sessions
          /\ eng' = eng
          /\ <<nSet, nEvict, issued, evicted, closedIds>>' = <<nSet, nEvict, issued, evicted, closedIds>>
          /\ \A r \in Req : req'[r] # req[r] => req[r].pc = "idle" /\ req'[r] = DoneReq]_vars

\* a request that names a registered session has just been answered 403
C13_Witness ==
    /\ resp.res = "Forbidden"
    /\ Truthy(resp.hdr)
    /\ resp.hdr \in DOMAIN sessions
    /\ resp.method \in {"POST", "DELETE"}

\* validateBodyData has been applied to a multiple-choice payload
McqValidated == val.pc = "done" /\ val.type = "multiple-choice-question"
\* the rules of the multiple-choice kind, stated on the payload
OptionsCountOk(d) == d.options.t = "array" /\ Len(d.options.v) >= 2 /\ Len(d.options.v) <= 4
OptionTextsOk(d) ==
    d.options.t = "array" /\ \A i \in 1..Len(d.options.v) :
        d.options.v[i].text.t = "string" /\ Len(d.options.v[i].text.v) <= 500
CorrectOptionIdIn(d) ==
    /\ d.options.t = "array"
    /\ d.correctOptionId.t = "string"
    /\ d.correctOptionId \in {d.options.v[i].id : i \in 1..Len(d.options.v)}
NonEmptyString(v) == v.t = "string" /\ v.v # << >>
QuestionOk(d) == NonEmptyString(d.question)
OptionIdsOk(d) == d.options.t = "array" /\ \A i \in 1..Len(d.options.v) : NonEmptyString(d.options.v[i].id)
ImagesOk(d) ==
    /\ d.imageFile.t \in {"undefined", "null"} \/ NonEmptyString(d.imageFile)
    /\ d.imageUrl.t \in {"undefined", "null", "string"}
    /\ d.imageAlt.t \in {"undefined", "null", "string"}
    /\ d.options.t = "array" => \A i \in 1..Len(d.options.v) :
          d.options.v[i].imageUrl.t \in {"undefined", "null", "string"}

\* C14 as claimed: a multiple-choice payload is accepted if and only if it has
\* 2 to 4 options, every option text has at most 500 characters and
\* correctOptionId is the id of one of the options.
C14_McqAcceptedIffOptionsRule ==
    McqValidated =>
        (val.result.success <=>
            OptionsCountOk(val.bodyData) /\ OptionTextsOk(val.bodyData) /\ CorrectOptionIdIn(val.bodyData))

\* C14 amended: a multiple-choice payload is accepted if and only if, besides
\* the three conditions of the claim, its question is a non-empty string,
\* every option id is a non-empty string and every image key is absent, null
\* or a string (imageFile a non-empty one).
C14_McqAcceptedIffAllRules ==
    McqValidated =>
        (val.result.success <=>
            /\ QuestionOk(val.bodyData)
            /\ ImagesOk(val.bodyData)
            /\ OptionsCountOk(val.bodyData)
            /\ OptionIdsOk(val.bodyData)
            /\ OptionTextsOk(val.bodyData)
            /\ CorrectOptionIdIn(val.bodyData))

\* a list of four options, the last with a text of exactly 500 characters and
\* the id correctOptionId names, has been accepted
C14_Witness ==
    /\ McqValidated
    /\ val.result.success
    /\ Len(val.bodyData.options.v) = 4
    /\ Len(val.bodyData.options.v[4].text.v) = 500
    /\ val.bodyData.correctOptionId = val.bodyData.options.v[4].id

\* the paths of the issues the rejection reason is made of
ListedPaths == {val.result.issues[i].path : i \in 1..Len(val.result.issues)}
\* every rule of the multiple-choice kind the payload d violates has an issue
\* in the reason: the question, the number of options, each option's id and
\* text, and the correctOptionId (its own issue or the membership issue,
\* which the refinement raises on the whole object)
EveryViolatedRuleListed(d) ==
    /\ ~QuestionOk(d) => <<"question">> \in ListedPaths
    /\ ~OptionsCountOk(d) => <<"options">> \in ListedPaths
    /\ d.options.t = "array" => \A i \in 1..Len(d.options.v) :
          /\ ~NonEmptyString(d.options.v[i].id) => <<"options", i, "id">> \in ListedPaths
          /\ ~(d.options.v[i].text.t = "string" /\ Len(d.options.v[i].text.v) <= 500)
                => <<"options", i, "text">> \in ListedPaths
    /\ ~CorrectOptionIdIn(d) => (<< >> \in ListedPaths \/ <<"correctOptionId">> \in ListedPaths)

\* C15: when a multiple-choice payload violates several rules at once, the
\* one rejection reason validate returns lists every violated rule.
C15_ReasonListsEveryViolatedRule ==
    McqValidated => EveryViolatedRuleListed(val.bodyData)

\* every key of the payload d and of its options has a value of its type
WellTyped(d) ==
    /\ d.question.t = "string"
    /\ d.correctOptionId.t = "string"
    /\ d.imageFile.t \in {"undefined", "null", "string"}
    /\ d.imageUrl.t \in {"undefined", "null", "string"}
    /\ d.imageAlt.t \in {"undefined", "null", "string"}
    /\ d.options.t = "array"
    /\ \A i \in 1..Len(d.options.v) :
          /\ d.options.v[i].id.t = "string"
          /\ d.options.v[i].text.t = "string"
          /\ d.options.v[i].imageUrl.t \in {"undefined", "null", "string"}

\* what the code keeps of C15: the reason lists every violated rule when
\* every key of the payload has a value of its type
C15_WellTypedReasonListsEveryRule ==
    (McqValidated /\ WellTyped(val.bodyData)) => EveryViolatedRuleListed(val.bodyData)

(* ---------------- C16: a summative text activity is rejected -------------- *)
\* C16: a create_activity call with type 'text' and is_summative true returns
\* the error result whose text is the non-scorable reason, whatever its
\* body_data, and leaves the rows of the activities table as they were
C16_SummativeTextRejected ==
    [][(lastOp'.op = "create_activity" /\ lastOp'.type = "text" /\ lastOp'.is_summative = Bool(TRUE))
           => (lastOp'.result = ErrorResult(NonScorable) /\ activities' = activities)]_vars
\* a summative text activity with a body_data the text schema accepts has been rejected
C16_Witness ==
    /\ lastOp.op = "create_activity" /\ lastOp.type = "text" /\ lastOp.is_summative = Bool(TRUE)
    /\ ValidateBodyData("text", lastOp.body_data).success
    /\ lastOp.result.isError /\ lastOp.result.text = NonScorable
    /\ activities = << >>

(* ------------- C17: no text activity is flagged summative ----------------- *)
\* C17: no row of the activities table has type 'text' together with
\* is_summative true, whichever of create_activity, activityQueries.create,
\* activityQueries.bulkCreate and activityQueries.update produced it
C17_NoSummativeText ==
    \A i \in 1..Len(activities) :
        ~(activities[i].type = "text" /\ activities[i].is_summative = Bool(TRUE))
\* the part create_activity keeps: the row it inserts is not a summative text
C17_ToolInsertsNoSummativeText ==
    [][(lastOp'.op = "create_activity" /\ ~lastOp'.result.isError)
           => ~(lastOp'.result.row.type = "text" /\ lastOp'.result.row.is_summative = Bool(TRUE))]_vars

(* ------------- C18: body_data is validated when a row is inserted --------- *)
\* C18: every row a step inserts into the activities table, by create_activity,
\* activityQueries.create or activityQueries.bulkCreate, has a body_data that
\* validateBodyData accepts for the type of the row
C18_InsertedBodyValidated ==
    [][\A i \in (Len(activities) + 1)..Len(activities') :
           ValidateBodyData(activities'[i].type, activities'[i].body_data).success]_vars
\* the part create_activity keeps: the row it inserts has a body_data that
\* validateBodyData accepts
C18_ToolInsertsValidatedBody ==
    [][(lastOp'.op = "create_activity" /\ ~lastOp'.result.isError)
           => /\ Len(activities') = Len(activities) + 1
              /\ ValidateBodyData(lastOp'.result.row.type, lastOp'.result.row.body_data).success]_vars

(* ------------- C19: a rejected body_data is reported, not persisted ------- *)
\* validateBodyData rejects the body_data of the create_activity call of this step
C19_CallRejected ==
    /\ lastOp'.op = "create_activity"
    /\ ~ValidateBodyData(lastOp'.type, lastOp'.body_data).success
\* C19 (as stated): when validateBodyData rejects the body_data of a
\* create_activity call, the result is the error whose text is exactly the
\* reason validateBodyData gave, and the rows of the table are unchanged
C19_RejectionReasonVerbatim ==
    [][C19_CallRejected
           => /\ lastOp'.result.isError
              /\ lastOp'.result.text = ValidateBodyData(lastOp'.type, lastOp'.body_data).error
              /\ activities' = activities]_vars
\* C19 (amended): the same for every call that is not a text activity with
\* is_summative true; for a text activity with is_summative true the text is
\* the non-scorable reason; in both cases the rows of the table are unchanged
C19_RejectionReasonVerbatimUnlessSummativeText ==
    [][C19_CallRejected
           => /\ lastOp'.result.isError
              /\ lastOp'.result.text =
                     IF lastOp'.type = "text" /\ lastOp'.is_summative = Bool(TRUE)
                     THEN NonScorable
                     ELSE ValidateBodyData(lastOp'.type, lastOp'.body_data).error
              /\ activities' = activities]_vars
\* a multiple-choice payload whose correctOptionId matches no option has been
\* rejected with the reason of validateBodyData, the table still empty
C19_Witness ==
    /\ lastOp.op = "create_activity" /\ lastOp.type = "multiple-choice-question"
    /\ lastOp.body_data = McqBodyBad
    /\ lastOp.result.isError
    /\ lastOp.result.text = <<"Invalid body_data for", "multiple-choice-question",
                              "correctOptionId must match the id of one of the provided options">>
    /\ activities = << >>

(* ------------- C20: create_activity then list_activities ------------------ *)
\* a create_activity call that succeeds inserts a row that is active, under
\* the lesson it was given, with the body_data it was given, and getAll of
\* that lesson has the row
C20_CreateStoresPayload ==
    (lastOp'.op = "create_activity" /\ ~lastOp'.result.isError)
        => LET row == lastOp'.result.row
           IN /\ row.active /\ row.lesson_id = lastOp'.lesson_id
              /\ row.body_data = lastOp'.body_data
              /\ activities' = Append(activities, row)
              /\ \E j \in 1..Len(GetAll(activities', row.lesson_id)) :
                     GetAll(activities', row.lesson_id)[j] = row
\* a list_activities call that succeeds returns every active row of the
\* lesson as the table holds it
C20_ListReturnsStored ==
    (lastOp'.op = "list_activities" /\ ~lastOp'.result.isError)
        => \A i \in 1..Len(activities) :
               (activities[i].lesson_id = lastOp'.lesson_id /\ activities[i].active)
                   => \E j \in 1..Len(lastOp'.result.rows) : lastOp'.result.rows[j] = activities[i]
\* a row of the table changes only in an update or a delete of its id
C20_RowKeptUntilUpdatedOrDeleted ==
    /\ Len(activities') >= Len(activities)
    /\ \A i \in 1..Len(activities) :
           activities'[i] # activities[i] => (lastOp'.op \in {"update", "delete"} /\ lastOp'.id = i)
\* C20: round trip. The row create_activity inserts for lesson L with payload
\* P is active and has body_data P; no step but an update or a delete of that
\* row changes it; and list_activities(L) returns every active row of L as
\* stored. So list_activities(L) has the activity with body_data P until it is
\* updated or soft-deleted
C20_RoundTrip ==
    [][C20_CreateStoresPayload /\ C20_ListReturnsStored /\ C20_RowKeptUntilUpdatedOrDeleted]_vars
\* the activities of L2 have been listed and among them is the
\* multiple-choice activity create_activity was given for L2, with its
\* payload, the key no schema names included (no other operation of the model
\* inserts this payload under L2)
C20_Witness ==
    /\ lastOp.op = "list_activities" /\ lastOp.lesson_id = "L2" /\ ~lastOp.result.isError
    /\ \E j \in 1..Len(lastOp.result.rows) :
           /\ lastOp.result.rows[j].body_data = McqBody
           /\ lastOp.result.rows[j].body_data.extra = Num
           /\ lastOp.result.rows[j].active
           /\ lastOp.result.rows[j].lesson_id = "L2"

(* ------------- C21: the text kind ----------------------------------------- *)
\* C21: validateBodyData for kind 'text' accepts a payload if and only if its
\* text is a string that is not empty
C21_TextAcceptedIffNonEmptyText ==
    (val.pc = "done" /\ val.type = "text")
        => (val.result.success <=> NonEmptyString(val.bodyData.text))
\* a text payload with a non-empty text has been accepted
C21_Witness ==
    /\ val.pc = "done" /\ val.type = "text"
    /\ val.bodyData.text = Str(<<"q">>)
    /\ val.result.success

(* ------------- C22: the short-text kind ----------------------------------- *)
\* C22: for a create_activity call of kind 'short-text-question', whose
\* payload carries a key the schema does not name, validateBodyData accepts
\* exactly when question and modelAnswer are both non-empty strings; a
\* rejected call is answered with the reason and inserts nothing; an accepted
\* one, unless the insert throws, inserts a row whose body_data is the payload
\* as given, the extra key included
C22_ShortTextAcceptedAndPreserved ==
    [][(lastOp'.op = "create_activity" /\ lastOp'.type = "short-text-question")
           => LET d == lastOp'.body_data
                  ok == NonEmptyString(d.question) /\ NonEmptyString(d.modelAnswer)
                  result == lastOp'.result
              IN /\ ValidateBodyData("short-text-question", d).success <=> ok
                 /\ ~ok => /\ result.isError
                           /\ result.text[1] = "Invalid body_data for"
                           /\ activities' = activities
                 /\ ok => \/ /\ ~result.isError
                             /\ result.row.body_data = d
                             /\ result.row.body_data.extra = Num
                             /\ activities' = Append(activities, result.row)
                          \/ /\ result.isError
                             /\ result.text[1] = "Error creating activity: "
                             /\ activities' = activities]_vars
\* a short-text activity with an extra key has been created and its row holds
\* the payload with the extra key
C22_Witness ==
    /\ lastOp.op = "create_activity" /\ lastOp.type = "short-text-question"
    /\ ~lastOp.result.isError
    /\ lastOp.body_data = ShortTextBody
    /\ Len(activities) = 1
    /\ activities[1].body_data.extra = Num
    /\ activities[1].body_data = ShortTextBody

\* the first half over every short-text payload validateBodyData is handed on
\* its own
C22_ShortTextAcceptedIff ==
    (val.pc = "done" /\ val.type = "short-text-question")
        => (val.result.success <=>
                (NonEmptyString(val.bodyData.question) /\ NonEmptyString(val.bodyData.modelAnswer)))

(* ------------- C23: question and option ids of the multiple-choice kind --- *)
\* the question is missing or empty, or an option has an empty or missing id
C23_QuestionOrOptionIdMissing ==
    \/ val.bodyData.question.t = "undefined"
    \/ val.bodyData.question = Str(<< >>)
    \/ /\ val.bodyData.options.t = "array"
       /\ \E i \in 1..Len(val.bodyData.options.v) :
              val.bodyData.options.v[i].id \in {Undef, Str(<< >>)}
\* C23: validateBodyData for kind 'multiple-choice-question' rejects every
\* payload whose question is missing or empty or one of whose options has an
\* empty or missing id, whatever the other rules say
C23_McqRejectsMissingQuestionOrOptionId ==
    (McqValidated /\ C23_QuestionOrOptionIdMissing) => ~val.result.success
\* a payload with an empty option id that meets the rules on the number of
\* options, the length of the texts and correctOptionId has been rejected
C23_Witness ==
    /\ McqValidated
    /\ QuestionOk(val.bodyData)
    /\ ~OptionIdsOk(val.bodyData)
    /\ OptionsCountOk(val.bodyData) /\ OptionTextsOk(val.bodyData) /\ CorrectOptionIdIn(val.bodyData)
    /\ ImagesOk(val.bodyData)
    /\ ~val.result.success

(* ------------- C24: a kind that is none of the three ---------------------- *)
\* C24 (as stated): for a kind other than the three, validateBodyData accepts
\* the payload and create_activity creates the activity with the payload as
\* given, unless the insert throws
C24_UnknownKindCreatedByTool ==
    [][(lastOp'.op = "create_activity" /\ lastOp'.type \notin Kinds)
           => /\ ValidateBodyData(lastOp'.type, lastOp'.body_data).success
              /\ \/ /\ ~lastOp'.result.isError
                    /\ lastOp'.result.row.body_data = lastOp'.body_data
                    /\ activities' = Append(activities, lastOp'.result.row)
                 \/ /\ lastOp'.result.isError
                    /\ lastOp'.result.text[1] = "Error creating activity: "]_vars
\* C24 (amended): for a kind other than the three, validateBodyData accepts
\* the payload; create_activity is refused by its input schema, an error with
\* nothing inserted; activityQueries.create, when its insert does not throw,
\* inserts a row of that kind whose body_data is the payload as given
C24_UnknownKindPassesValidateNotTool ==
    [][(lastOp'.op \in {"create_activity", "create"} /\ lastOp'.type \notin Kinds)
           => /\ ValidateBodyData(lastOp'.type, lastOp'.body_data).success
              /\ lastOp'.op = "create_activity"
                     => /\ lastOp'.result.isError
                        /\ lastOp'.result.text = <<"Invalid arguments for tool create_activity">>
                        /\ activities' = activities
              /\ (lastOp'.op = "create" /\ ~lastOp'.result.thrown)
                     => /\ lastOp'.result.row.type = lastOp'.type
                        /\ lastOp'.result.row.body_data = lastOp'.body_data
                        /\ activities' = Append(activities, lastOp'.result.row)]_vars
\* activityQueries.create has inserted an activity of kind 'essay' whose
\* payload no schema of the three kinds accepts
C24_Witness ==
    /\ lastOp.op = "create" /\ lastOp.type = "essay" /\ ~lastOp.result.thrown
    /\ Len(activities) = 1
    /\ activities[1].type = "essay"
    /\ activities[1].body_data = McqBodyBad

(* ------------- C25: a tool handler returns, whatever the gateway does ----- *)
ToolNames == {"list_units", "list_lessons_for_unit", "find_lesson", "create_activity", "list_activities"}
\* C25: every call of one of the five tools ends in a result that is returned,
\* a success or an isError, never in an exception past the handler, also when
\* the query throws; the step leaves the registry of sessions and the process
\* as they were
C25_ToolAlwaysReturns ==
    [][lastOp'.op \in ToolNames
           => /\ ~lastOp'.result.thrown
              /\ lastOp'.result.isError => lastOp'.result.text # << >>
              /\ sessions' = sessions /\ exited' = exited /\ eng' = eng]_vars
\* list_units has returned an isError result for a query that threw
C25_Witness ==
    /\ lastOp.op = "list_units"
    /\ lastOp.result.isError /\ ~lastOp.result.thrown
    /\ lastOp.result.text[1] = "Error listing units: "
    /\ lastOp.result.text[2] \in DbErrors
\* the route's side of it: when the transport of a routed POST or GET has
\* answered, whatever it answered, the registry is as it was
C25_ForwardedKeepsRegistry ==
    [][\A r \in Req : (req[r].pc = "fwd_await" /\ req'[r].pc # "fwd_await") => sessions' = sessions]_vars

(* ------------- C26: what a storage failure tells the caller --------------- *)
\* the texts the catch blocks of the five handlers begin with
StorageErrorPrefixes ==
    {"Error listing units: ", "Error listing lessons: ", "Error finding lessons: ",
     "Error creating activity: ", "Error listing activities: "}
\* C26: the error result of a tool whose query threw has a text that does
\* not hold the message of the storage error, so that it is the same text
\* whatever that message is
C26_StorageErrorTextGeneric ==
    (lastOp.op \in ToolNames /\ lastOp.result.isError /\ lastOp.result.text[1] \in StorageErrorPrefixes)
        => \A i \in 1..Len(lastOp.result.text) : lastOp.result.text[i] \notin DbErrors

C28_RowsNeverRemoved ==
    [][/\ Len(activities') >= Len(activities)
       /\ \A i \in 1..Len(activities) :
             GetById(activities', activities[i].activity_id).activity_id = activities[i].activity_id
       /\ (lastOp'.op = "delete" /\ lastOp'.result.bool) =>
             /\ ~GetById(activities', lastOp'.id).active
             /\ \A i \in 1..Len(activities) :
                   [activities'[i] EXCEPT !.active = activities[i].active] = activities[i]
       /\ \A i \in 1..Len(activities'), l \in Lessons :
             ~activities'[i].active =>
                 \A j \in 1..Len(GetAll(activities', l)) :
                     GetAll(activities', l)[j].activity_id # activities'[i].activity_id
       /\ (lastOp'.op = "list_activities" /\ ~lastOp'.result.isError) =>
             \A j \in 1..Len(lastOp'.result.rows) :
                 GetById(activities', lastOp'.result.rows[j].activity_id).active]_vars
\* a row was created and deleted, and list_activities of its lesson then
\* returned nothing while getById still returns the row
C28_Witness ==
    /\ lastOp.op = "list_activities"
    /\ ~lastOp.result.isError
    /\ lastOp.result.rows = << >>
    /\ Len(activities) = 1
    /\ activities[1].lesson_id = lastOp.lesson_id
    /\ ~activities[1].active
    /\ GetById(activities, 1) = activities[1]

C29_UnknownIdWitness ==
    /\ lastOp.op = "update"
    /\ ~lastOp.result.thrown
    /\ lastOp.id \notin 1..Len(activities)
    /\ lastOp.result.row = NoRow

(* ------------- C30: requests of one session start in order --------------- *)
\* the positions of a request the transport of its session is handling or
\* has handled
InEngine == {"fwd_await", "del_await", "del_resume"}
Blank(v) == v.t = "string" /\ v.v # << >> /\ \A k \in 1..Len(v.v) : v.v[k] = " "
\* C31: no schema trims: validateBodyData raises no issue at question,
\* modelAnswer, text, an option id or correctOptionId when the value there is
\* a string of blanks, in whichever kind the field is; and a payload whose
\* required strings are all blank is accepted when the rules on the options
\* and the images are met
C31_BlankCountsAsNonEmpty ==
    val.pc = "done" =>
        LET d == val.bodyData IN
        /\ val.type \in {"multiple-choice-question", "short-text-question"} =>
              (Blank(d.question) => <<"question">> \notin ListedPaths)
        /\ val.type = "short-text-question" =>
              /\ Blank(d.modelAnswer) => <<"modelAnswer">> \notin ListedPaths
              /\ (Blank(d.question) /\ Blank(d.modelAnswer)) => val.result.success
        /\ val.type = "text" =>
              /\ Blank(d.text) => <<"text">> \notin ListedPaths
              /\ Blank(d.text) => val.result.success
        /\ val.type = "multiple-choice-question" =>
              /\ Blank(d.correctOptionId) => <<"correctOptionId">> \notin ListedPaths
              /\ d.options.t = "array" =>
                    \A i \in 1..Len(d.options.v) :
                        Blank(d.options.v[i].id) => <<"options", i, "id">> \notin ListedPaths
              /\ ( /\ Blank(d.question) /\ Blank(d.correctOptionId)
                   /\ ImagesOk(d) /\ OptionsCountOk(d) /\ OptionTextsOk(d)
                   /\ d.options.t = "array"
                   /\ \A i \in 1..Len(d.options.v) : d.options.v[i].id.t = "string" /\ d.options.v[i].id.v # << >>
                   /\ \E i \in 1..Len(d.options.v) : Blank(d.options.v[i].id) )
                 => val.result.success
\* a multiple-choice payload whose question, first option id and
\* correctOptionId are strings of blanks has been accepted
C31_Witness ==
    /\ val.pc = "done" /\ val.type = "multiple-choice-question"
    /\ Blank(val.bodyData.question)
    /\ Blank(val.bodyData.correctOptionId)
    /\ val.bodyData.options.t = "array"
    /\ Len(val.bodyData.options.v) = 2
    /\ Blank(val.bodyData.options.v[1].id)
    /\ val.result.success
\* a short-text payload whose question and modelAnswer are strings of blanks
\* has been accepted
C31_ShortTextWitness ==
    /\ val.pc = "done" /\ val.type = "short-text-question"
    /\ Blank(val.bodyData.question) /\ Blank(val.bodyData.modelAnswer)
    /\ val.result.success

(* ------------- C32: what find_lesson finds --------------------------------- *)
\* pat occurs in s
Contains(s, pat) == \E i \in 0..(Len(s) - Len(pat)) : SubSeq(s, i + 1, i + Len(pat)) = pat
\* C32: find_lesson returns exactly the active lessons whose title contains
\* the search string, letters compared without regard to case, and which
\* belong to unit_id when one is given
C32_FindLessonReturnsSubstringMatches ==
    (lastOp.op = "find_lesson" /\ ~lastOp.result.isError) =>
        { lastOp.result.rows[j].lesson_id : j \in 1..Len(lastOp.result.rows) }
        = { LessonRows[i].lesson_id :
              i \in { k \in 1..Len(LessonRows) :
                        /\ IsActive(LessonRows[k])
                        /\ Contains(ToLower(LessonRows[k].title), ToLower(lastOp.title.v))
                        /\ lastOp.unit_id # Undef => <<LessonRows[k].unit_id>> = lastOp.unit_id.v } }

(* ------------- C33: pairs of POSTs that register nothing ------------------- *)
\* C33: when a POST that created an engine/transport pair has completed, the
\* pair has been registered under a session id or has been closed
C33_NoPairLeftUnregisteredAndOpen ==
    \A r \in Req :
        (req[r].pc = "done" /\ eng[r].created) => (Truthy(eng[r].sessionId) \/ Closed(r))

(* ------------- C34: the registry after a DELETE ---------------------------- *)
\* C34: when a DELETE that found its token registered completes, through
\* line 115 or through the catch block, the token is no key of the registry
C34_DeleteLeavesTokenUnregistered ==
    [][\A r \in Req :
          (req[r].method = "DELETE" /\ req[r].pc \in {"del_await", "del_resume"} /\ req'[r].pc = "done")
              => req[r].hdr \notin DOMAIN sessions']_vars

(* ------------- C35: an entry is stored under its transport's id ----------- *)
\* C35: every key of the registry is the session id of the transport stored
\* under it
C35_KeyIsTransportSessionId ==
    \A k \in DOMAIN sessions : eng[sessions[k].transport].sessionId = k
\* two sessions were registered, one has been closed and evicted, the other
\* is stored under the id of its transport
C35_Witness ==
    /\ Cardinality(DOMAIN sessions) = 1
    /\ evicted # {}
    /\ \E k \in DOMAIN sessions : eng[sessions[k].transport].sessionId = k /\ k \notin evicted

(* ------------- C36: only a POST adds an entry ------------------------------ *)
\* C36: a step that adds a key to the registry or creates an engine and
\* transport is a step of a POST handler, never of a GET or DELETE handler
\* and never the arrival of a GET or DELETE; and a GET or DELETE without a
\* session header is answered 400 in the step of its arrival
C36_OnlyPostAddsEntry ==
    [][/\ (DOMAIN sessions' \ DOMAIN sessions # {} \/ \E e \in Req : eng'[e].created /\ ~eng[e].created) =>
             /\ arrived'.method \notin {"GET", "DELETE"}
             /\ \E r \in Req : req[r].method = "POST" \/ req'[r].method = "POST"
             /\ \A r \in Req : req[r].method \in {"GET", "DELETE"} => req'[r] = req[r]
       /\ (arrived'.method \in {"GET", "DELETE"} /\ arrived'.hdr = NoSessionId) =>
             /\ resp'.method = arrived'.method
             /\ StatusOf(resp'.res) = 400
             /\ sessions' = sessions
             /\ eng' = eng]_vars
\* a GET without a session header has been answered 400 while a session is
\* registered
C36_Witness ==
    /\ arrived.method = "GET"
    /\ arrived.hdr = NoSessionId
    /\ resp.method = "GET"
    /\ resp.res = "SessionNotFound"
    /\ DOMAIN sessions # {}

(* ------------- C37: shutdown() called twice -------------------------------- *)
\* C37, its first two parts: however the calls of shutdown() interleave, no
\* engine is closed more than once and db.close() is called at most once
C37_ClosedAtMostOnce ==
    /\ dbClosed <= 1
    /\ \A e \in DOMAIN eng : eng[e].closes <= 1
\* the part of C37 the code keeps: no engine is closed more than once, as
\* the close of a pair removes its entry before the other call looks
C37_EngineClosedAtMostOnce == \A e \in DOMAIN eng : eng[e].closes <= 1

(* ------------- C38: a signal leads to the exit ----------------------------- *)
\* C38: once a signal has been delivered, the process eventually exits,
\* the store and the listener closed, whether or not the listener had been
\* started and whether or not a server.close() rejected
C38_SignalLeadsToExit ==
    (\E s \in Calls : sd[s].pc # "idle") ~> (exited /\ dbClosed > 0 /\ ~listening)

(* ------------- C39: order_by, is_summative and notes of a new row --------- *)
\* C39: the row activityQueries.create inserts, called on its own or by
\* create_activity, has the order_by, is_summative and notes it was given,
\* an order_by of 0 and notes of '' included, has null, false and null where
\* the argument was left out, and is active
C39_InsertedAsSupplied ==
    (lastOp.op \in {"create", "create_activity"} /\ ~lastOp.result.isError /\ ~lastOp.result.thrown) =>
        /\ lastOp.result.row.order_by = IF lastOp.order_by = Undef THEN Null ELSE lastOp.order_by
        /\ lastOp.result.row.is_summative =
              IF lastOp.is_summative = Undef THEN Bool(FALSE) ELSE lastOp.is_summative
        /\ lastOp.result.row.notes = IF lastOp.notes = Undef THEN Null ELSE lastOp.notes
        /\ lastOp.result.row.active
\* what the code keeps of C39: the values are stored as supplied unless they
\* are falsy (0, '', false), which are stored as null, null and false
C39_InsertedAsSuppliedUnlessFalsy ==
    (lastOp.op \in {"create", "create_activity"} /\ ~lastOp.result.isError /\ ~lastOp.result.thrown) =>
        /\ lastOp.result.row.order_by =
              IF lastOp.order_by \in {Undef, Number(0)} THEN Null ELSE lastOp.order_by
        /\ lastOp.result.row.is_summative =
              IF lastOp.is_summative = Undef THEN Bool(FALSE) ELSE lastOp.is_summative
        /\ lastOp.result.row.notes = IF lastOp.notes \in {Undef, Str(<< >>)} THEN Null ELSE lastOp.notes
        /\ lastOp.result.row.active
====
